---------------------------- MODULE Spec2Model ----------------------------
(***************************************************************************)
(* A model of the standup-helper data preprocessing service               *)
(* (src/src/services/data_preprocessor.py, class DataPreprocessor).       *)
(*                                                                         *)
(* A Python str is a sequence of one-character strings; offsets are the    *)
(* 0-based offsets of Python (offset p lies between t[p] and t[p+1] of the *)
(* 1-based TLA+ sequence t).                                               *)
(***************************************************************************)
EXTENDS Integers, Sequences, FiniteSets, TLC

VARIABLES
    pc,            \* which call the preprocessor instance has last completed
    text,          \* the text argument of extract / deduplicate / _extract_context
    tickets,       \* value returned by extract_ticket_ids
    deduped,       \* value returned by deduplicate_content
    deduped_again, \* value returned by deduplicate_content for that value
    ticket_id,     \* the ticket_id argument of _extract_context
    context_size,  \* the context_size argument of _extract_context
    context,       \* value returned by _extract_context
    cleaned_notes, \* value returned by _clean_notes
    ticket_map,    \* self.ticket_map of the DataPreprocessor instance
    time_entries,  \* self.time_entries of the DataPreprocessor instance
    notes,         \* the notes argument of correlate_ticket_data / structure_for_ai
    jira_tickets,  \* the jira_tickets argument of correlate_ticket_data
    git_commits,   \* the git_commits argument of correlate_ticket_data
    timew_data,    \* the timew_data argument of correlate_ticket_data
    typed,         \* how many pieces of input the arguments are made of
    raised,        \* whether the last call raised instead of returning
    correlated,    \* value returned by correlate_ticket_data
    structured,    \* value returned by structure_for_ai
    others,        \* how many calls on other arguments the instance has served
    correlated_again, \* value returned by correlate_ticket_data when called
                      \* once more with the same arguments
    now,           \* what datetime.now() returns when it is called
    ticks,         \* how many times the clock has advanced
    lookup,        \* today and the note paths of get_notes_content
    got_date_range,  \* value returned by get_date_range
    saved,         \* today and the date range label of save_summary
    structured_data, \* value returned by aggregate_all_data_structured
    normalized_text, \* value returned by normalize_ticket_references
    events,        \* the events argument of filter_recent_events
    recent_events, \* value returned by filter_recent_events
    jira_info,     \* value returned by get_jira_tickets
    github_events, \* value returned by get_github_events, when it is called
    combined_data  \* value returned by aggregate_all_data

textVars ==
    <<text, tickets, deduped, deduped_again, ticket_id, context_size, context,
      cleaned_notes>>

corrVars ==
    <<ticket_map, time_entries, notes, jira_tickets, git_commits, timew_data,
      typed, raised, correlated, structured, others, correlated_again>>

aggVars == <<now, ticks, lookup, got_date_range, saved, structured_data>>

moreVars ==
    <<normalized_text, events, recent_events, jira_info, github_events,
      combined_data>>

vars == <<pc, textVars, corrVars, aggVars, moreVars>>

-----------------------------------------------------------------------------
(* Characters and str methods                                              *)

UpperSeq ==
    <<"A","B","C","D","E","F","G","H","I","J","K","L","M",
      "N","O","P","Q","R","S","T","U","V","W","X","Y","Z">>

LowerSeq ==
    <<"a","b","c","d","e","f","g","h","i","j","k","l","m",
      "n","o","p","q","r","s","t","u","v","w","x","y","z">>

DigitSeq == <<"0","1","2","3","4","5","6","7","8","9">>

Range(s) == { s[i] : i \in DOMAIN s }

UpperSet == Range(UpperSeq)
LowerSet == Range(LowerSeq)
DigitSet == Range(DigitSeq)

\* [A-Z] under re.IGNORECASE
IsLetter(c) == c \in UpperSet \/ c \in LowerSet

\* \d
IsDigit(c) == c \in DigitSet

\* \w
IsWord(c) == IsLetter(c) \/ IsDigit(c) \/ c = "_"

\* the characters str.strip() removes
IsSpace(c) == c \in {" ", "\n", "\t", "\r"}

UpperChar(c) ==
    IF c \in LowerSet
    THEN UpperSeq[CHOOSE i \in DOMAIN LowerSeq : LowerSeq[i] = c]
    ELSE c

LowerChar(c) ==
    IF c \in UpperSet
    THEN LowerSeq[CHOOSE i \in DOMAIN UpperSeq : UpperSeq[i] = c]
    ELSE c

\* str.upper()
Upper(s) == [i \in DOMAIN s |-> UpperChar(s[i])]

\* str.lower()
Lower(s) == [i \in DOMAIN s |-> LowerChar(s[i])]

\* the slice s[a:b] for 0 <= a, b <= len(s)
Slice(s, a, b) == IF a < b THEN SubSeq(s, a + 1, b) ELSE <<>>

RECURSIVE Concat(_)
\* ''.join(pieces)
Concat(pieces) ==
    IF pieces = <<>> THEN <<>> ELSE Head(pieces) \o Concat(Tail(pieces))

RECURSIVE SplitFrom(_, _, _)
\* the lines of t from offset a on, the current line having started at offset b
SplitFrom(t, a, b) ==
    IF a = Len(t) THEN << Slice(t, b, a) >>
    ELSE IF t[a + 1] = "\n" THEN << Slice(t, b, a) >> \o SplitFrom(t, a + 1, a + 1)
    ELSE SplitFrom(t, a + 1, b)

\* str.split('\n'): never empty, ''.split('\n') is ['']
Split(t) == SplitFrom(t, 0, 0)

RECURSIVE Join(_)
\* '\n'.join(lines)
Join(lines) ==
    IF lines = <<>> THEN <<>>
    ELSE IF Len(lines) = 1 THEN lines[1]
    ELSE lines[1] \o <<"\n">> \o Join(Tail(lines))

\* str.strip()
Strip(t) ==
    LET inked == { i \in DOMAIN t : ~IsSpace(t[i]) }
    IN  IF inked = {} THEN <<>>
        ELSE SubSeq(t, CHOOSE i \in inked : \A j \in inked : i <= j,
                       CHOOSE i \in inked : \A j \in inked : j <= i)

-----------------------------------------------------------------------------
(* The regular expressions of TICKET_PATTERNS                              *)

\* \b at offset p of t
WordBoundary(t, p) ==
    LET before == p >= 1 /\ IsWord(t[p])
        after  == p < Len(t) /\ IsWord(t[p + 1])
    IN  before # after

\* the lengths k >= least for which [A-Z]{least,} matches k characters from
\* offset s and the hyphen, when the pattern has one, follows them
LetterFits(hyphen, least, t, s) ==
    { k \in least..(Len(t) - s) :
        /\ \A i \in 1..k : IsLetter(t[s + i])
        /\ hyphen => (s + k + 1 <= Len(t) /\ t[s + k + 1] = "-") }

\* the lengths d >= 1 for which \d+ matches d characters from offset s and
\* the closing \b holds after them
DigitFits(t, s) ==
    { d \in 1..(Len(t) - s) :
        /\ \A i \in 1..d : IsDigit(t[s + i])
        /\ WordBoundary(t, s + d) }

Max(S) == CHOOSE x \in S : \A y \in S : y <= x
Min(S) == CHOOSE x \in S : \A y \in S : x <= y

\* r'\b([A-Z]{2,}-\d+)\b' ("standard") and r'\b([A-Z]+\d+)\b' ("compact"),
\* re.IGNORECASE: the end offset of the match that starts at offset s, or -1.
\* Both quantifiers are greedy: the longest letter run that lets the rest
\* match, then the longest digit run.
MatchEnd(pattern, t, s) ==
    LET hyphen == pattern = "standard"
        least  == IF hyphen THEN 2 ELSE 1
        gap    == IF hyphen THEN 1 ELSE 0
        ks     == { k \in LetterFits(hyphen, least, t, s) :
                      DigitFits(t, s + k + gap) # {} }
    IN  IF ~WordBoundary(t, s) THEN -1
        ELSE IF ks = {} THEN -1
        ELSE LET k == Max(ks)
             IN  s + k + gap + Max(DigitFits(t, s + k + gap))

RECURSIVE FindAll(_, _, _)
\* re.findall: the non-overlapping matches, leftmost first, as <<start, end>>
FindAll(pattern, t, pos) ==
    LET starts == { s \in pos..Len(t) : MatchEnd(pattern, t, s) # -1 }
    IN  IF starts = {} THEN <<>>
        ELSE LET s == Min(starts)
                 e == MatchEnd(pattern, t, s)
             IN  <<(<<s, e>>)>> \o FindAll(pattern, t, e)

\* TICKET_PATTERNS with the compact pattern left out
TICKET_PATTERNS_StandardOnly == <<"standard">>

TICKET_PATTERNS == <<"standard", "compact">>

\* the matched texts of one pattern
Matches(pattern, t) ==
    LET found == FindAll(pattern, t, 0)
    IN  { Slice(t, found[i][1], found[i][2]) : i \in DOMAIN found }

\* every ticket mention of the text, as matched (before upper())
Mentions(t) ==
    UNION { Matches(TICKET_PATTERNS[p], t) : p \in DOMAIN TICKET_PATTERNS }

\* extract_ticket_ids without the upper() of line 41
extract_ticket_ids_NoUpper(t) == Mentions(t)

extract_ticket_ids(t) ==
    UNION { { Upper(m) : m \in Matches(TICKET_PATTERNS[p], t) } :
            p \in DOMAIN TICKET_PATTERNS }

-----------------------------------------------------------------------------
(* Input texts: concatenations of at most n pieces                         *)

TextsOf(pieces, n) ==
    { Concat(ps) : ps \in UNION { [1..k -> pieces] : k \in 0..n } }

\* offsets at which tok occurs in t
Occurrences(t, tok) ==
    { s \in 0..(Len(t) - Len(tok)) : Slice(t, s, s + Len(tok)) = tok }

\* offsets at which tok occurs in t delimited by non-word characters or the
\* text boundaries
WholeWordOccurrences(t, tok) ==
    { s \in Occurrences(t, tok) :
        /\ s = 0 \/ ~IsWord(t[s])
        /\ s + Len(tok) = Len(t) \/ ~IsWord(t[s + Len(tok) + 1]) }

-----------------------------------------------------------------------------
(* extract_ticket_ids on bounded texts                                     *)

ABCD_1234 == <<"A","B","C","D","-","1","2","3","4">>
abcd_1234 == <<"a","b","c","d","-","1","2","3","4">>
ABCD1234  == <<"A","B","C","D","1","2","3","4">>
WXYZ5678  == <<"W","X","Y","Z","5","6","7","8">>

ExtractPieces ==
    { ABCD_1234, abcd_1234, ABCD1234, WXYZ5678,
      <<" ">>, <<"-">>, <<"x">>, <<"1">>, <<"_">> }

MaxExtractPieces == 4

NoSet == {}
NoText == <<>>

\* the clock when no call reads it
NoInstant == [day |-> 0, tick |-> 0]

\* a dict with no key
EmptyDict == [k \in {} |-> {}]

\* lines 24-27: the fields of a new DataPreprocessor
NewInstance == [ticket_map |-> EmptyDict, time_entries |-> EmptyDict]

\* the variables of the text-only calls, when no such call is made
TextUnused ==
    /\ text = NoText
    /\ tickets = NoSet
    /\ deduped = NoText
    /\ deduped_again = NoText
    /\ ticket_id = NoText
    /\ context_size = 0
    /\ context = NoText
    /\ cleaned_notes = NoText

\* the variables of correlate_ticket_data and structure_for_ai, when neither
\* is called: a new instance and no arguments
CorrUnused ==
    /\ ticket_map = NewInstance.ticket_map
    /\ time_entries = NewInstance.time_entries
    /\ notes = NoText
    /\ jira_tickets = <<>>
    /\ git_commits = NoText
    /\ timew_data = NoText
    /\ typed = 0
    /\ raised = FALSE
    /\ correlated = EmptyDict
    /\ structured = <<>>
    /\ others = 0
    /\ correlated_again = EmptyDict

\* the variables of normalize_ticket_references, filter_recent_events and
\* aggregate_all_data, when none of them is called
MoreUnused ==
    /\ normalized_text = NoText
    /\ events = <<>>
    /\ recent_events = <<>>
    /\ jira_info = NoText
    /\ github_events = <<>>
    /\ combined_data = NoText

\* the variables of the DataAggregator and of save_summary, when neither is
\* called
AggUnused ==
    /\ now = NoInstant
    /\ ticks = 0
    /\ lookup = <<>>
    /\ got_date_range = <<>>
    /\ saved = <<>>
    /\ structured_data = <<>>

InitExtract ==
    /\ pc = "start"
    /\ AggUnused
    /\ MoreUnused
    /\ text \in TextsOf(ExtractPieces, MaxExtractPieces)
    /\ tickets = NoSet
    /\ deduped = NoText
    /\ deduped_again = NoText
    /\ ticket_id = NoText
    /\ context_size = 0
    /\ context = NoText
    /\ cleaned_notes = NoText
    /\ CorrUnused

CallExtract ==
    /\ pc = "start"
    /\ tickets' = extract_ticket_ids(text)
    /\ pc' = "extracted"
    /\ UNCHANGED <<text, deduped, deduped_again, ticket_id, context_size, context,
                 cleaned_notes, corrVars, aggVars, moreVars>>

NextExtract == CallExtract

SpecExtract == InitExtract /\ [][NextExtract]_vars

\* C6 as stated: whenever the text contains "ABCD-1234" and "WXYZ5678"
\* anywhere (as substrings, whatever surrounds them), extract_ticket_ids
\* returns both.
C6_BothExtractedWhateverSurrounds ==
    ( /\ pc = "extracted"
      /\ Occurrences(text, ABCD_1234) # {}
      /\ Occurrences(text, WXYZ5678) # {} )
    => (ABCD_1234 \in tickets /\ WXYZ5678 \in tickets)

\* C6 amended: whenever "ABCD-1234" and "WXYZ5678" each occur in the text as a
\* whole word (not directly preceded or followed by a letter, a digit or an
\* underscore), in either order, extract_ticket_ids returns a set that holds
\* both; a token that occurs as a whole word is in the returned set, once,
\* however often it repeats; and when every mention of the text is one of
\* the two tokens the returned set is exactly the two.
C6_WholeWordBothExtracted ==
    pc = "extracted" =>
        /\ \A tok \in {ABCD_1234, WXYZ5678} :
              WholeWordOccurrences(text, tok) # {}
                  => Cardinality({ id \in tickets : id = tok }) = 1
        /\ ( /\ WholeWordOccurrences(text, ABCD_1234) # {}
             /\ WholeWordOccurrences(text, WXYZ5678) # {}
             /\ Mentions(text) \subseteq {ABCD_1234, WXYZ5678} )
           => tickets = {ABCD_1234, WXYZ5678}

\* C6 witness: both tokens as whole words, "WXYZ5678" first, other characters
\* around them, and both returned
C6_Witness ==
    /\ pc = "extracted"
    /\ \E a \in WholeWordOccurrences(text, ABCD_1234) :
       \E w \in WholeWordOccurrences(text, WXYZ5678) : w < a /\ w > 0
    /\ {ABCD_1234, WXYZ5678} \subseteq tickets

\* the identifiers of the returned set that a mention m stands for: those
\* equal to its matched text up to letter case
IdentifiersOf(m) == { id \in tickets : Lower(id) = Lower(m) }

\* C7: every returned identifier is in uppercase canonical form and is the
\* uppercased text of a mention; every mention yields exactly one identifier;
\* two mentions yield the same identifier iff their matched texts are equal
\* after uppercasing (so mentions differing only in letter case collapse),
\* and the hyphenated and the fused form of a ticket stay two identifiers.
C7_UppercaseCanonicalKeys ==
    pc = "extracted" =>
        LET ms == Mentions(text)
        IN  /\ \A id \in tickets :
                  /\ \A i \in DOMAIN id : id[i] \notin LowerSet
                  /\ \E m \in ms : Upper(m) = id
            /\ \A m \in ms : IdentifiersOf(m) = {Upper(m)}
            /\ \A m1, m2 \in ms :
                  (IdentifiersOf(m1) = IdentifiersOf(m2))
                      <=> (Upper(m1) = Upper(m2))
            /\ ( /\ \E m \in ms : Upper(m) = ABCD_1234
                 /\ \E m \in ms : Upper(m) = ABCD1234 )
               => Cardinality({ id \in tickets :
                                  id \in {ABCD_1234, ABCD1234} }) = 2

\* C7 witness: "abcd-1234" and "ABCD-1234" are both mentioned and one
\* identifier is returned for them
C7_Witness ==
    /\ pc = "extracted"
    /\ {abcd_1234, ABCD_1234} \subseteq Mentions(text)
    /\ tickets = {ABCD_1234}

-----------------------------------------------------------------------------
(* deduplicate_content                                                     *)

\* line 324: the comparison key of a line
Normalized(line) == Lower(Strip(line))

RECURSIVE DedupLoop_PerParagraph(_, _, _)
\* the loop of lines 322-327 with seen emptied at every blank line
DedupLoop_PerParagraph(lines, seen, unique_lines) ==
    IF lines = <<>> THEN unique_lines
    ELSE LET line == Head(lines)
             normalized == Normalized(line)
         IN  IF normalized = <<>>
             THEN DedupLoop_PerParagraph(Tail(lines), {}, unique_lines)
             ELSE IF normalized \notin seen
             THEN DedupLoop_PerParagraph(Tail(lines), seen \cup {normalized},
                                         Append(unique_lines, line))
             ELSE DedupLoop_PerParagraph(Tail(lines), seen, unique_lines)

RECURSIVE DedupLoop_KeepNormalized(_, _, _)
\* the loop of lines 322-327 appending the comparison key instead of the line
DedupLoop_KeepNormalized(lines, seen, unique_lines) ==
    IF lines = <<>> THEN unique_lines
    ELSE LET line == Head(lines)
             normalized == Normalized(line)
         IN  IF normalized # <<>> /\ normalized \notin seen
             THEN DedupLoop_KeepNormalized(Tail(lines), seen \cup {normalized},
                                           Append(unique_lines, normalized))
             ELSE DedupLoop_KeepNormalized(Tail(lines), seen, unique_lines)

RECURSIVE DedupLoop(_, _, _)
\* lines 322-327: the loop over the remaining lines
DedupLoop(lines, seen, unique_lines) ==
    IF lines = <<>> THEN unique_lines
    ELSE LET line == Head(lines)
             normalized == Normalized(line)
         IN  IF normalized # <<>> /\ normalized \notin seen
             THEN DedupLoop(Tail(lines), seen \cup {normalized},
                            Append(unique_lines, line))
             ELSE DedupLoop(Tail(lines), seen, unique_lines)

deduplicate_content(t) == Join(DedupLoop(Split(t), {}, <<>>))

DedupAlphabet == {"a", "A", "b", " ", "\n"}

MaxDedupLen == 6

InitDedup ==
    /\ pc = "start"
    /\ AggUnused
    /\ MoreUnused
    /\ text \in UNION { [1..n -> DedupAlphabet] : n \in 0..MaxDedupLen }
    /\ tickets = NoSet
    /\ deduped = NoText
    /\ deduped_again = NoText
    /\ ticket_id = NoText
    /\ context_size = 0
    /\ context = NoText
    /\ cleaned_notes = NoText
    /\ CorrUnused

\* deduplicate_content(text)
CallDedup ==
    /\ pc = "start"
    /\ deduped' = deduplicate_content(text)
    /\ pc' = "deduped"
    /\ UNCHANGED <<text, tickets, deduped_again, ticket_id, context_size, context,
                 cleaned_notes, corrVars, aggVars, moreVars>>

\* deduplicate_content applied to the text it returned
CallDedupAgain ==
    /\ pc = "deduped"
    /\ deduped_again' = deduplicate_content(deduped)
    /\ pc' = "deduped again"
    /\ UNCHANGED <<text, tickets, deduped, ticket_id, context_size, context,
                 cleaned_notes, corrVars, aggVars, moreVars>>

NextDedup == CallDedup \/ CallDedupAgain

SpecDedup == InitDedup /\ [][NextDedup]_vars

\* C4: deduplicate_content is idempotent: applied to its own result it
\* returns that result unchanged.
C4_DedupIdempotent == pc = "deduped again" => deduped_again = deduped

\* C4 witness: a first call that dropped a repeated line and a blank line,
\* and a second call on its result
C4_Witness ==
    /\ pc = "deduped again"
    /\ text = <<"a", "\n", "\n", "A", "\n", "b">>
    /\ deduped = <<"a", "\n", "b">>
    /\ deduped_again = <<"a", "\n", "b">>

\* the 1-based numbers of the input lines that are the first with their
\* non-empty normalized key
FirstOccurrences(lines) ==
    { i \in DOMAIN lines :
        /\ Normalized(lines[i]) # <<>>
        /\ \A j \in 1..(i - 1) : Normalized(lines[j]) # Normalized(lines[i]) }

RECURSIVE Pick(_, _, _)
\* the lines numbered in keep, from line i on, in input order
Pick(lines, keep, i) ==
    IF i > Len(lines) THEN <<>>
    ELSE (IF i \in keep THEN << lines[i] >> ELSE <<>>) \o Pick(lines, keep, i + 1)

\* C5: the result is the input lines that are the first with their non-empty
\* normalized key (trimmed, lowercased), with their original text, in input
\* order; no two kept lines share a key and no kept line is blank.
C5_FirstOccurrencesKept ==
    pc = "deduped" =>
        LET lines == Split(text)
            kept  == Pick(lines, FirstOccurrences(lines), 1)
        IN  /\ deduped = Join(kept)
            /\ \A i, j \in DOMAIN kept :
                  Normalized(kept[i]) = Normalized(kept[j]) => i = j
            /\ \A i \in DOMAIN kept : Normalized(kept[i]) # <<>>
            /\ kept # <<>> => Split(deduped) = kept

\* C5 witness: a line repeated in another letter case and with other
\* surrounding blanks is dropped, the first keeps its text
C5_Witness ==
    /\ pc = "deduped"
    /\ text = <<" ", "A", "\n", "a", "\n", "b">>
    /\ deduped = <<" ", "A", "\n", "b">>

-----------------------------------------------------------------------------
(* _extract_context                                                        *)

\* lines 146-147: pattern.search for rf'\b{re.escape(ticket_id)}\b' under
\* re.IGNORECASE: the offsets at which the pattern matches
ContextMatches(t, id) ==
    { s \in 0..(Len(t) - Len(id)) :
        /\ WordBoundary(t, s)
        /\ Lower(Slice(t, s, s + Len(id))) = Lower(id)
        /\ WordBoundary(t, s + Len(id)) }

\* pattern.search taking the last match instead of the first
ContextSearch_Last(t, id) ==
    IF ContextMatches(t, id) = {} THEN -1 ELSE Max(ContextMatches(t, id))

\* line 147: match.start() of the first match, -1 for no match
ContextSearch(t, id) ==
    IF ContextMatches(t, id) = {} THEN -1 ELSE Min(ContextMatches(t, id))

Ellipsis == <<".", ".", ".">>

\* lines 148-159 testing match.start() > 0 in place of start > 0
ContextAround_MatchStart(t, ms, me, size) ==
    LET start == Max({0, ms - size})
        end   == Min({Len(t), me + size})
    IN  (IF ms > 0 THEN Ellipsis ELSE <<>>)
        \o Strip(Slice(t, start, end))
        \o (IF end < Len(t) THEN Ellipsis ELSE <<>>)

\* lines 148-159: the context of the match from offset ms to offset me
ContextAround(t, ms, me, size) ==
    LET start == Max({0, ms - size})
        end   == Min({Len(t), me + size})
    IN  (IF start > 0 THEN Ellipsis ELSE <<>>)
        \o Strip(Slice(t, start, end))
        \o (IF end < Len(t) THEN Ellipsis ELSE <<>>)

_extract_context(t, id, size) ==
    LET ms == ContextSearch(t, id)
    IN  IF ms = -1 THEN <<>> ELSE ContextAround(t, ms, ms + Len(id), size)

AB_1 == <<"A", "B", "-", "1">>
ab_1 == <<"a", "b", "-", "1">>
X1   == <<"X", "1">>

ContextPieces == { AB_1, ab_1, <<" ">>, <<"x">>, <<"1">> }

ContextIds == { AB_1, X1 }

MaxContextPieces == 5

MaxContextSize == 2

InitContext ==
    /\ pc = "start"
    /\ AggUnused
    /\ MoreUnused
    /\ text \in TextsOf(ContextPieces, MaxContextPieces)
    /\ ticket_id \in ContextIds
    /\ context_size \in 0..MaxContextSize
    /\ tickets = NoSet
    /\ deduped = NoText
    /\ deduped_again = NoText
    /\ context = NoText
    /\ cleaned_notes = NoText
    /\ CorrUnused

\* _extract_context(text, ticket_id, context_size)
CallExtractContext ==
    /\ pc = "start"
    /\ context' = _extract_context(text, ticket_id, context_size)
    /\ pc' = "context"
    /\ UNCHANGED <<text, tickets, deduped, deduped_again, ticket_id, context_size,
                 cleaned_notes, corrVars, aggVars, moreVars>>

NextContext == CallExtractContext

SpecContext == InitContext /\ [][NextContext]_vars

\* the offsets of the case-insensitive whole-word occurrences of tok in t
WholeWordMentions(t, tok) ==
    { s \in 0..(Len(t) - Len(tok)) :
        /\ Upper(Slice(t, s, s + Len(tok))) = Upper(tok)
        /\ s = 0 \/ ~IsWord(t[s])
        /\ s + Len(tok) = Len(t) \/ ~IsWord(t[s + Len(tok) + 1]) }

\* the result is the window's text between an ellipsis prefix iff lead and an
\* ellipsis suffix iff trail
Ellipsized(result, window, lead, trail) ==
    result = (IF lead THEN Ellipsis ELSE <<>>) \o window
                 \o (IF trail THEN Ellipsis ELSE <<>>)

\* C8: when the identifier is found, the leading "..." is added exactly
\* when the first match starts more than context_size characters after the
\* start of the text, and the trailing "..." exactly when the match ends
\* more than context_size characters before the end of the text; a side on
\* which the window reaches the text boundary gets no ellipsis.
C8_EllipsisIffClipped ==
    (pc = "context" /\ WholeWordMentions(text, ticket_id) # {}) =>
        LET ms     == Min(WholeWordMentions(text, ticket_id))
            me     == ms + Len(ticket_id)
            lead   == ms > context_size
            trail  == Len(text) - me > context_size
            from   == IF lead THEN ms - context_size ELSE 0
            to     == IF trail THEN me + context_size ELSE Len(text)
        IN  /\ Ellipsized(context, Strip(Slice(text, from, to)), lead, trail)
            /\ (from = 0 /\ to = Len(text)) => context = Strip(text)

\* C8 witness: the window reaches the start of the text but not its end, so
\* only the trailing ellipsis is added
C8_Witness ==
    /\ pc = "context"
    /\ text = <<" ", "A", "B", "-", "1", " ", "x", "x">>
    /\ ticket_id = AB_1
    /\ context_size = 1
    /\ context = <<"A", "B", "-", "1", ".", ".", ".">>

\* C9 as stated: the result is empty iff the text has no case-insensitive
\* whole-word occurrence of the identifier; otherwise the result without
\* its added ellipses is exactly text[start:end], the window of context_size
\* characters around the first occurrence clipped to the text bounds.
C9_ExactWindowSubstring ==
    pc = "context" =>
        LET found == WholeWordMentions(text, ticket_id)
        IN  /\ context = <<>> <=> found = {}
            /\ found # {} =>
                 LET ms    == Min(found)
                     me    == ms + Len(ticket_id)
                     start == IF ms > context_size THEN ms - context_size ELSE 0
                     end   == IF Len(text) - me > context_size
                              THEN me + context_size ELSE Len(text)
                 IN  Ellipsized(context, Slice(text, start, end),
                                start > 0, end < Len(text))

\* C9 amended: as C9, with the window text[start:end] stripped of its
\* leading and trailing whitespace.
C9_StrippedWindowSubstring ==
    pc = "context" =>
        LET found == WholeWordMentions(text, ticket_id)
        IN  /\ context = <<>> <=> found = {}
            /\ found # {} =>
                 LET ms    == Min(found)
                     me    == ms + Len(ticket_id)
                     start == IF ms > context_size THEN ms - context_size ELSE 0
                     end   == IF Len(text) - me > context_size
                              THEN me + context_size ELSE Len(text)
                 IN  Ellipsized(context, Strip(Slice(text, start, end)),
                                start > 0, end < Len(text))

\* C9 witness: two occurrences, the window of the first one starts and ends
\* with a blank that the result does not keep; the second occurrence plays
\* no role
C9_Witness ==
    /\ pc = "context"
    /\ text = <<"x", " ", "a", "b", "-", "1", " ", "A", "B", "-", "1">>
    /\ ticket_id = AB_1
    /\ context_size = 1
    /\ context = <<".", ".", ".", "a", "b", "-", "1", ".", ".", ".">>

-----------------------------------------------------------------------------
(* correlate_ticket_data                                                   *)

\* Python's None, and a value that is present
None == <<>>
Some(x) == <<x>>

\* needle in hay
Contains(hay, needle) ==
    \E s \in 0..(Len(hay) - Len(needle)) : Slice(hay, s, s + Len(needle)) = needle

\* line 135: context_size: int = 100
DefaultContextSize == 100

\* lines 91-98: the value a missing key of correlated gets; time_duration is
\* a key only once line 131 has set it, and is read with data.get (line 251)
DefaultEntry ==
    [ mentioned_in_notes |-> FALSE,
      jira_status        |-> None,
      jira_summary       |-> None,
      git_commits        |-> <<>>,
      time_tracked       |-> FALSE,
      contexts           |-> <<>>,
      time_duration      |-> None ]

\* correlated[k], which makes the default entry for a missing key
Get(d, k) == IF k \in DOMAIN d THEN d[k] ELSE DefaultEntry

\* correlated[k] = e
Put(d, k, e) == [x \in DOMAIN d \cup {k} |-> IF x = k THEN e ELSE d[x]]

\* line 103 alone: the flag without the context of lines 105-107
Mentioned_FlagOnly(entry, ctx) == [entry EXCEPT !.mentioned_in_notes = TRUE]

\* lines 103-107: the entry of a ticket of the notes, ctx being its context
Mentioned(entry, ctx) ==
    [entry EXCEPT !.mentioned_in_notes = TRUE,
                  !.contexts = IF ctx # <<>>
                               THEN Append(@, [source  |-> "notes",
                                               context |-> ctx])
                               ELSE @]

RECURSIVE NotesPass(_, _, _)
\* lines 102-107, for the tickets of notes_tickets not yet visited; every
\* iteration writes its own key only, so the order of the set plays no role
NotesPass(d, todo, n) ==
    IF todo = {} THEN d
    ELSE LET ticket == CHOOSE t \in todo : TRUE
         IN  NotesPass(
                 Put(d, ticket,
                     Mentioned(Get(d, ticket),
                               _extract_context(n, ticket, DefaultContextSize))),
                 todo \ {ticket}, n)

\* line 111: ticket.get('key', ''), falsy when absent, None or ''
TruthyKey(ticket) == ticket.key # None /\ ticket.key[1] # <<>>

\* lines 113-114: whether fields.get or .get('name') is called on None
JiraRaises(ticket) ==
    \/ ticket.fields.kind = "null"
    \/ ticket.fields.kind = "dict" /\ ticket.fields.status.kind = "null"

\* line 114: fields.get('status', {}).get('name')
StatusName(ticket) ==
    IF ticket.fields.kind = "dict" /\ ticket.fields.status.kind = "dict"
    THEN ticket.fields.status.name ELSE None

\* line 115: fields.get('summary')
Summary(ticket) ==
    IF ticket.fields.kind = "dict" THEN ticket.fields.summary ELSE None

RECURSIVE JiraPass_SkipUnknown(_, _)
\* lines 110-115 updating only the keys correlated already has
JiraPass_SkipUnknown(d, todo) ==
    IF todo = <<>> THEN [raised |-> FALSE, ret |-> d]
    ELSE LET ticket == Head(todo)
         IN  IF ~TruthyKey(ticket) \/ ticket.key[1] \notin DOMAIN d
             THEN JiraPass_SkipUnknown(d, Tail(todo))
             ELSE IF JiraRaises(ticket) THEN [raised |-> TRUE, ret |-> d]
             ELSE JiraPass_SkipUnknown(
                      Put(d, ticket.key[1],
                          [Get(d, ticket.key[1]) EXCEPT
                             !.jira_status = StatusName(ticket),
                             !.jira_summary = Summary(ticket)]),
                      Tail(todo))

RECURSIVE JiraPass_UpperKey(_, _)
\* lines 110-115 with the key uppercased like an extracted identifier
JiraPass_UpperKey(d, todo) ==
    IF todo = <<>> THEN [raised |-> FALSE, ret |-> d]
    ELSE LET ticket == Head(todo)
         IN  IF ~TruthyKey(ticket) THEN JiraPass_UpperKey(d, Tail(todo))
             ELSE IF JiraRaises(ticket) THEN [raised |-> TRUE, ret |-> d]
             ELSE JiraPass_UpperKey(
                      Put(d, Upper(ticket.key[1]),
                          [Get(d, Upper(ticket.key[1])) EXCEPT
                             !.jira_status = StatusName(ticket),
                             !.jira_summary = Summary(ticket)]),
                      Tail(todo))

RECURSIVE JiraPass(_, _)
\* lines 110-115, for the remaining tracker records, in list order
JiraPass(d, todo) ==
    IF todo = <<>> THEN [raised |-> FALSE, ret |-> d]
    ELSE LET ticket == Head(todo)
         IN  IF ~TruthyKey(ticket) THEN JiraPass(d, Tail(todo))
             ELSE IF JiraRaises(ticket) THEN [raised |-> TRUE, ret |-> d]
             ELSE JiraPass(
                      Put(d, ticket.key[1],
                          [Get(d, ticket.key[1]) EXCEPT
                             !.jira_status = StatusName(ticket),
                             !.jira_summary = Summary(ticket)]),
                      Tail(todo))

RECURSIVE CommitLoop_NoDedup(_, _, _)
\* lines 173-178 without the "commit not in commits" test of line 177
CommitLoop_NoDedup(lines, id, commits) ==
    IF lines = <<>> THEN commits
    ELSE IF Contains(Upper(Head(lines)), Upper(id)) /\ Strip(Head(lines)) # <<>>
         THEN CommitLoop_NoDedup(Tail(lines), id, Append(commits, Strip(Head(lines))))
         ELSE CommitLoop_NoDedup(Tail(lines), id, commits)

RECURSIVE CommitLoop(_, _, _)
\* lines 173-178, for the remaining lines of the git log
CommitLoop(lines, id, commits) ==
    IF lines = <<>> THEN commits
    ELSE LET line   == Head(lines)
             commit == Strip(line)
         IN  IF /\ Contains(Upper(line), Upper(id))
                /\ commit # <<>>
                /\ commit \notin Range(commits)
             THEN CommitLoop(Tail(lines), id, Append(commits, commit))
             ELSE CommitLoop(Tail(lines), id, commits)

_extract_git_commits_for_ticket(git_log, id) ==
    CommitLoop(Split(git_log), id, <<>>)

RECURSIVE GitPass(_, _, _)
\* lines 119-122, for the tickets of git_tickets not yet visited
GitPass(d, todo, git_log) ==
    IF todo = {} THEN d
    ELSE LET ticket  == CHOOSE t \in todo : TRUE
             commits == _extract_git_commits_for_ticket(git_log, ticket)
             entry   == [Get(d, ticket) EXCEPT !.git_commits = @ \o commits]
         IN  GitPass(Put(d, ticket, entry), todo \ {ticket}, git_log)

\* the lengths d >= 1 for which \d+ matches d characters from offset s,
\* followed by a colon when one is needed
DurationDigits(t, s, colon) ==
    { d \in 1..(Len(t) - s) :
        /\ \A i \in 1..d : IsDigit(t[s + i])
        /\ colon => (s + d + 1 <= Len(t) /\ t[s + d + 1] = ":") }

\* \d+:\d+ from offset s: the end offset, or -1
ShortDurationEnd(t, s) ==
    LET as == { a \in DurationDigits(t, s, TRUE) :
                  DurationDigits(t, s + a + 1, FALSE) # {} }
    IN  IF as = {} THEN -1
        ELSE LET a == Max(as)
             IN  s + a + 1 + Max(DurationDigits(t, s + a + 1, FALSE))

\* \d+:\d+:\d+ from offset s: the end offset, or -1
LongDurationEnd(t, s) ==
    LET bs(a) == { b \in DurationDigits(t, s + a + 1, TRUE) :
                     DurationDigits(t, s + a + 1 + b + 1, FALSE) # {} }
        as    == { a \in DurationDigits(t, s, TRUE) : bs(a) # {} }
    IN  IF as = {} THEN -1
        ELSE LET a == Max(as)
                 b == Max(bs(a))
             IN  s + a + 1 + b + 1
                   + Max(DurationDigits(t, s + a + 1 + b + 1, FALSE))

\* line 196: re.search(r'(\d+:\d+:\d+|\d+:\d+)', line): group(1) of the
\* leftmost match, the first alternative tried first, or None
DurationSearch(line) ==
    LET starts == { s \in 0..Len(line) : ShortDurationEnd(line, s) # -1 }
    IN  IF starts = {} THEN None
        ELSE LET s == Min(starts)
                 e == IF LongDurationEnd(line, s) # -1
                      THEN LongDurationEnd(line, s)
                      ELSE ShortDurationEnd(line, s)
             IN  Some(Slice(line, s, e))

\* lines 191-199: the (i, j) pairs the two loops visit, numbered from 1, at
\* which the line i holds the ticket and the line j holds a duration
DurationHits(lines, id) ==
    { ij \in (DOMAIN lines) \X (DOMAIN lines) :
        /\ ij[2] \in Max({1, ij[1] - 1})..Min({Len(lines), ij[1] + 1})
        /\ Contains(lines[ij[1]], id)
        /\ DurationSearch(lines[ij[2]]) # None }

\* lines 192-199 scanning the line of the mention before the line above it
FirstDuration_MentionLineFirst(lines, hits) ==
    IF hits = {} THEN None
    ELSE LET Rank(h) == IF h[2] = h[1] THEN 0 ELSE h[2]
             first == CHOOSE h \in hits : \A g \in hits :
                          h[1] < g[1] \/ (h[1] = g[1] /\ Rank(h) <= Rank(g))
         IN  DurationSearch(lines[first[2]])

\* lines 192-199: the duration at the first of the hits in loop order, or
\* None when the loops end without a hit
FirstDuration(lines, hits) ==
    IF hits = {} THEN None
    ELSE LET first == CHOOSE h \in hits : \A g \in hits :
                          h[1] < g[1] \/ (h[1] = g[1] /\ h[2] <= g[2])
         IN  DurationSearch(lines[first[2]])

\* lines 192-199 on the lines of the text
DurationIn(lines, id) == FirstDuration(lines, DurationHits(lines, id))

_extract_time_duration(timew, id) == DurationIn(Split(timew), id)

\* lines 127-131: the entry of a ticket of the time-tracking text, duration
\* being what _extract_time_duration found for it
Tracked(entry, duration) ==
    [entry EXCEPT !.time_tracked = TRUE,
                  !.time_duration = IF duration # None /\ duration[1] # <<>>
                                    THEN duration ELSE @]

RECURSIVE TimewPass(_, _, _)
\* lines 126-131, for the tickets of timew_tickets not yet visited
TimewPass(d, todo, timew) ==
    IF todo = {} THEN d
    ELSE LET ticket == CHOOSE t \in todo : TRUE
         IN  TimewPass(
                 Put(d, ticket,
                     Tracked(Get(d, ticket),
                             _extract_time_duration(timew, ticket))),
                 todo \ {ticket}, timew)

\* lines 117-133 when the tracker records raised nothing: the git and the
\* time-tracking passes and the return
AfterJira(self, afterJira, git_log, timew) ==
    IF afterJira.raised
    THEN [self |-> self, raised |-> TRUE, ret |-> EmptyDict]
    ELSE [self |-> self, raised |-> FALSE,
          ret |-> TimewPass(GitPass(afterJira.ret,
                                    extract_ticket_ids(git_log), git_log),
                            extract_ticket_ids(timew), timew)]

\* lines 91-133 with correlated kept in self.ticket_map from call to call
correlate_ticket_data_SharedMap(self, n, jira, git_log, timew) ==
    LET r == AfterJira(self,
                       JiraPass(NotesPass(self.ticket_map,
                                          extract_ticket_ids(n), n), jira),
                       git_log, timew)
    IN  IF r.raised THEN r ELSE [r EXCEPT !.self.ticket_map = r.ret]

\* lines 91-133: the instance after the call, whether the call raised, and
\* the mapping it returned
correlate_ticket_data(self, n, jira, git_log, timew) ==
    AfterJira(self,
              JiraPass(NotesPass(EmptyDict, extract_ticket_ids(n), n), jira),
              git_log, timew)

-----------------------------------------------------------------------------
(* structure_for_ai                                                        *)

\* the characters of the model in code point order
CodePoints ==
    <<"\n", " ", "-", ".">> \o DigitSeq \o <<":">> \o UpperSeq \o <<"_">>
        \o LowerSeq

CodePoint(c) == CHOOSE i \in DOMAIN CodePoints : CodePoints[i] = c

\* a < b for two str
StrLess(a, b) ==
    \E i \in 1..(Len(a) + 1) :
        /\ i <= Len(b)
        /\ \A j \in 1..(i - 1) : a[j] = b[j]
        /\ i = Len(a) + 1 \/ CodePoint(a[i]) < CodePoint(b[i])

RECURSIVE Sorted_Descending(_)
\* sorted(..., reverse=True)
Sorted_Descending(S) ==
    IF S = {} THEN <<>>
    ELSE LET greatest == CHOOSE a \in S : \A b \in S \ {a} : StrLess(b, a)
         IN  <<greatest>> \o Sorted_Descending(S \ {greatest})

RECURSIVE Sorted(_)
\* sorted(...) of a set of pairwise different str
Sorted(S) ==
    IF S = {} THEN <<>>
    ELSE LET least == CHOOSE a \in S : \A b \in S \ {a} : StrLess(a, b)
         IN  <<least>> \o Sorted(S \ {least})

\* s[:n]
Take(s, n) == Slice(s, 0, Min({n, Len(s)}))

\* the truth value of an optional str: neither None nor ''
Truthy(opt) == opt # None /\ opt[1] # <<>>

\* one element appended to structured: what it is and the values formatted
\* into it
Line(kind, id, status, txt, n, dates) ==
    [kind |-> kind, id |-> id, status |-> status, text |-> txt, n |-> n,
     dates |-> dates]

Literal(kind) == Line(kind, <<>>, None, None, 0, <<>>)

\* the timestamp pattern of line 293 from offset s: the end offset, or -1.
\* r'(\d{1,2}:\d{2})\s*(?:am|pm|AM|PM)?\s*-\s*'
TimestampEnd(t, s) ==
    LET At(i) == IF i >= 1 /\ i <= Len(t) THEN t[i] ELSE ""
        hours == { h \in {1, 2} :
                     /\ \A i \in 1..h : IsDigit(At(s + i))
                     /\ At(s + h + 1) = ":"
                     /\ IsDigit(At(s + h + 2))
                     /\ IsDigit(At(s + h + 3)) }
        Blanks(p) == Max({ w \in 0..(Len(t) - p) :
                             \A i \in 1..w : IsSpace(At(p + i)) })
        Meridiem(p) ==
            IF <<At(p + 1), At(p + 2)>> \in
                 { <<"a", "m">>, <<"p", "m">>, <<"A", "M">>, <<"P", "M">> }
            THEN 2 ELSE 0
        Rest(p) ==
            LET p1 == p + Blanks(p)
                p2 == p1 + Meridiem(p1)
                p3 == p2 + Blanks(p2)
            IN  IF At(p3 + 1) = "-" THEN p3 + 1 + Blanks(p3 + 1) ELSE -1
        fits == { h \in hours : Rest(s + h + 3) # -1 }
    IN  IF fits = {} THEN -1 ELSE Rest(s + Max(fits) + 3)

\* the run of the character c from offset s: its length
RunOf(t, s, c) ==
    Max({ w \in 0..(Len(t) - s) : \A i \in 1..w : t[s + i] = c })

RECURSIVE StripTimestamps(_, _)
\* line 293: re.sub of the timestamp pattern by '', from offset s on
StripTimestamps(t, s) ==
    IF s >= Len(t) THEN <<>>
    ELSE IF TimestampEnd(t, s) # -1 THEN StripTimestamps(t, TimestampEnd(t, s))
    ELSE <<t[s + 1]>> \o StripTimestamps(t, s + 1)

RECURSIVE CollapseRuns(_, _, _, _, _)
\* lines 296-297: re.sub of a run of at least least characters c by to, from
\* offset s on
CollapseRuns(t, s, c, least, to) ==
    IF s >= Len(t) THEN <<>>
    ELSE IF RunOf(t, s, c) >= least
    THEN to \o CollapseRuns(t, s + RunOf(t, s, c), c, least, to)
    ELSE <<t[s + 1]>> \o CollapseRuns(t, s + 1, c, least, to)

\* lines 300-305: the stripped lines that are not empty
RECURSIVE CleanLines(_)
CleanLines(lines) ==
    IF lines = <<>> THEN <<>>
    ELSE (IF Strip(Head(lines)) # <<>> THEN <<Strip(Head(lines))>> ELSE <<>>)
         \o CleanLines(Tail(lines))

\* lines 292-307
_clean_notes(n) ==
    LET untimed   == StripTimestamps(n, 0)
        unspaced  == CollapseRuns(untimed, 0, "\n", 3, <<"\n", "\n">>)
        collapsed == CollapseRuns(unspaced, 0, " ", 2, <<" ">>)
    IN  Join(CleanLines(Split(collapsed)))

\* line 237 negated: an entry is active unless it is in no text source
IsActive_Inverted(data) ==
    ~(data.git_commits # <<>> \/ data.time_tracked \/ data.mentioned_in_notes)

\* line 237: the test that puts an entry into active_tickets
IsActive(data) ==
    data.git_commits # <<>> \/ data.time_tracked \/ data.mentioned_in_notes

\* line 246 alone: the bullet of an active ticket without its details
ActiveBlock_BulletOnly(id, data) ==
    <<Line("active bullet", id, None, None, 0, <<>>)>>

\* lines 246-259: the block of one active ticket
ActiveBlock(id, data) ==
    <<Line("active bullet", id, None, None, 0, <<>>)>>
    \o (IF Truthy(data.jira_summary)
        THEN <<Line("summary", <<>>, None, data.jira_summary, 0, <<>>)>>
        ELSE <<>>)
    \o (IF Truthy(data.jira_status)
        THEN <<Line("status", <<>>, data.jira_status, None, 0, <<>>)>>
        ELSE <<>>)
    \o (IF Truthy(data.time_duration)
        THEN <<Line("time spent", <<>>, None, data.time_duration, 0, <<>>)>>
        ELSE <<>>)
    \o (IF data.git_commits # <<>>
        THEN <<Line("commits", <<>>, None, None, Len(data.git_commits), <<>>)>>
             \o [i \in 1..Min({2, Len(data.git_commits)}) |->
                   Line("commit", <<>>, None,
                        Some(Take(data.git_commits[i], 100)), 0, <<>>)]
        ELSE <<>>)
    \o (IF data.contexts # <<>>
        THEN <<Line("context", <<>>, None,
                    Some(Take(data.contexts[1].context, 150)), 0, <<>>)>>
        ELSE <<>>)

\* lines 265-270: the line of one mentioned-only ticket
MentionedLine(id, data) ==
    Line("mentioned bullet", id,
         IF Truthy(data.jira_status) THEN data.jira_status ELSE None,
         IF Truthy(data.jira_summary)
         THEN Some(Take(data.jira_summary[1], 50)) ELSE None,
         0, <<>>)

RECURSIVE Blocks(_, _)
\* the loop of lines 245-259 over the sorted active tickets
Blocks(ids, d) ==
    IF ids = <<>> THEN <<>>
    ELSE ActiveBlock(Head(ids), d[Head(ids)]) \o Blocks(Tail(ids), d)

\* lines 229-230 with the test of line 229 dropped: the header of the
\* TICKET WORK section whatever the mapping, and no ticket
TicketWork_Always(d) == <<Literal("=== TICKET WORK ===")>>

\* lines 229-270: the TICKET WORK section
TicketWork(d) ==
    LET active_tickets    == { id \in DOMAIN d : IsActive(d[id]) }
        mentioned_tickets == { id \in DOMAIN d : ~IsActive(d[id]) }
        mentioned         == Sorted(mentioned_tickets)
    IN  IF DOMAIN d = {} THEN <<>>
        ELSE <<Literal("=== TICKET WORK ===")>>
             \o (IF active_tickets # {}
                 THEN <<Literal("ACTIVELY WORKED ON:")>>
                      \o Blocks(Sorted(active_tickets), d)
                 ELSE <<>>)
             \o (IF mentioned_tickets # {}
                 THEN <<Literal("ALSO TRACKING:")>>
                      \o [i \in DOMAIN mentioned |->
                            MentionedLine(mentioned[i], d[mentioned[i]])]
                 ELSE <<>>)

\* lines 217-280: the instance after the call and the elements of structured
\* that are joined into the returned text
structure_for_ai(self, d, n, date_range) ==
    [ self |-> self,
      ret  |->
        <<Literal("=== TIMEFRAME ==="),
          Line("Period:", <<>>, None, None, 0, date_range)>>
        \o (IF date_range[1] # date_range[2]
            THEN <<Line("Yesterday:", <<>>, None, None, 0, <<date_range[1]>>),
                   Line("Today:", <<>>, None, None, 0, <<date_range[2]>>)>>
            ELSE <<>>)
        \o <<Literal("")>>
        \o TicketWork(d)
        \o <<Literal(""),
             Literal("=== WORK NOTES ==="),
             Line("notes", <<>>, None, Some(_clean_notes(n)), 0, <<>>)>> ]

-----------------------------------------------------------------------------
(* Calls of correlate_ticket_data on bounded arguments                     *)

Duration == <<"1", ":", "0", "0">>

NotePieces  == { AB_1, ab_1, X1, <<" ">> }
GitPieces   == { AB_1, ab_1, <<"2">>, <<"\n">> }
TimewPieces == { AB_1, ab_1, Duration, <<" ">>, <<"\n">> }

\* a tracker record {'key': key, 'fields': {'status': {'name': status},
\* 'summary': summary}}
FullRecord(key, status, summary) ==
    [ key    |-> Some(key),
      fields |-> [ kind    |-> "dict",
                   status  |-> [kind |-> "dict", name |-> Some(status)],
                   summary |-> Some(summary) ] ]

\* a tracker record {'key': key}
BareRecord(key) ==
    [ key    |-> Some(key),
      fields |-> [ kind    |-> "absent",
                   status  |-> [kind |-> "absent", name |-> None],
                   summary |-> None ] ]

\* a tracker record {'key': key, 'fields': None}
NullFieldsRecord(key) ==
    [ key    |-> Some(key),
      fields |-> [ kind    |-> "null",
                   status  |-> [kind |-> "absent", name |-> None],
                   summary |-> None ] ]

\* the status names and the summaries of the tracker records
InProgress == <<"I", "n", " ", "P", "r", "o", "g", "r", "e", "s", "s">>
FixBug == <<"F", "i", "x", " ", "b", "u", "g">>
Done == <<"D", "o", "n", "e">>
WriteDocs == <<"W", "r", "i", "t", "e", " ", "d", "o", "c", "s">>
Open == <<"O", "p", "e", "n">>
NoKey == <<"N", "o", " ", "k", "e", "y">>

JiraRecords ==
    { FullRecord(AB_1, InProgress, FixBug),
      FullRecord(ab_1, Done, WriteDocs),
      FullRecord(<<>>, Open, NoKey),
      BareRecord(AB_1),
      BareRecord(ab_1),
      NullFieldsRecord(AB_1) }

MaxInput == 3

InitCorrelate ==
    /\ pc = "args"
    /\ AggUnused
    /\ MoreUnused
    /\ TextUnused
    /\ CorrUnused

\* one more piece of the notes argument
TypeNotes(max) ==
    /\ pc = "args"
    /\ typed < max
    /\ \E p \in NotePieces : notes' = notes \o p
    /\ typed' = typed + 1
    /\ UNCHANGED <<pc, textVars, aggVars, moreVars, ticket_map, time_entries, jira_tickets,
                   git_commits, timew_data, raised, correlated, structured,
                   others, correlated_again>>

\* one more record of the jira_tickets argument
TypeJira(max) ==
    /\ pc = "args"
    /\ typed < max
    /\ \E r \in JiraRecords : jira_tickets' = Append(jira_tickets, r)
    /\ typed' = typed + 1
    /\ UNCHANGED <<pc, textVars, aggVars, moreVars, ticket_map, time_entries, notes,
                   git_commits, timew_data, raised, correlated, structured,
                   others, correlated_again>>

\* one more piece of the git_commits argument
TypeGit(max) ==
    /\ pc = "args"
    /\ typed < max
    /\ \E p \in GitPieces : git_commits' = git_commits \o p
    /\ typed' = typed + 1
    /\ UNCHANGED <<pc, textVars, aggVars, moreVars, ticket_map, time_entries, notes,
                   jira_tickets, timew_data, raised, correlated, structured,
                   others, correlated_again>>

\* one more piece of the timew_data argument
TypeTimew(max) ==
    /\ pc = "args"
    /\ typed < max
    /\ \E p \in TimewPieces : timew_data' = timew_data \o p
    /\ typed' = typed + 1
    /\ UNCHANGED <<pc, textVars, aggVars, moreVars, ticket_map, time_entries, notes,
                   jira_tickets, git_commits, raised, correlated, structured,
                   others, correlated_again>>

\* the instance the calls are made on
Self == [ticket_map |-> ticket_map, time_entries |-> time_entries]

\* correlate_ticket_data(notes, jira_tickets, git_commits, timew_data)
CallCorrelate ==
    /\ pc = "args"
    /\ \E r \in { correlate_ticket_data(Self, notes, jira_tickets,
                                         git_commits, timew_data) } :
           /\ ticket_map' = r.self.ticket_map
           /\ time_entries' = r.self.time_entries
           /\ raised' = r.raised
           /\ correlated' = r.ret
           /\ pc' = IF r.raised THEN "raised" ELSE "correlated"
    /\ UNCHANGED <<textVars, aggVars, moreVars, notes, jira_tickets, git_commits, timew_data,
                   typed, structured, others, correlated_again>>

\* the calendar days of the date_range argument: one day, or two
DateRanges == { <<1, 1>>, <<1, 2>> }

\* structure_for_ai(correlated, notes, date_range) on the mapping returned
CallStructure ==
    /\ pc = "correlated"
    /\ \E date_range \in DateRanges :
         \E r \in { structure_for_ai(Self, correlated, notes, date_range) } :
             /\ ticket_map' = r.self.ticket_map
             /\ time_entries' = r.self.time_entries
             /\ structured' = r.ret
    /\ pc' = "structured"
    /\ UNCHANGED <<textVars, aggVars, moreVars, notes, jira_tickets, git_commits, timew_data,
                   typed, raised, correlated, others, correlated_again>>

NextCorrelate ==
    \/ TypeNotes(MaxInput)
    \/ TypeJira(MaxInput)
    \/ TypeGit(MaxInput)
    \/ TypeTimew(MaxInput)
    \/ CallCorrelate
    \/ CallStructure

SpecCorrelate == InitCorrelate /\ [][NextCorrelate]_vars

\* the keys of the tracker records that line 112 lets through
TrackerKeys(jira) ==
    { jira[i].key[1] : i \in { j \in DOMAIN jira : TruthyKey(jira[j]) } }

\* the identifiers the Extractor finds in the three texts
TextKeys == extract_ticket_ids(notes) \cup extract_ticket_ids(git_commits)
                \cup extract_ticket_ids(timew_data)

\* C1: the keys of the returned mapping are exactly the identifiers of the
\* notes, the non-empty keys of the tracker records, the identifiers of the
\* commit log and the identifiers of the time-tracking text: each has one
\* entry and there is no other key.
C1_KeysAreUnionOfSources ==
    pc = "correlated" =>
        /\ DOMAIN correlated = TextKeys \cup TrackerKeys(jira_tickets)
        /\ \A id \in TextKeys \cup TrackerKeys(jira_tickets) :
              Cardinality({ k \in DOMAIN correlated : k = id }) = 1

\* C1 witness: three keys, one from the notes only, one from a tracker
\* record only, one from the commit log only
C1_Witness ==
    /\ pc = "correlated"
    /\ Cardinality(DOMAIN correlated) = 3
    /\ \E k \in DOMAIN correlated :
          k \in extract_ticket_ids(notes)
              /\ k \notin TrackerKeys(jira_tickets) \cup extract_ticket_ids(git_commits)
    /\ \E k \in DOMAIN correlated : k \in TrackerKeys(jira_tickets) /\ k \notin TextKeys
    /\ \E k \in DOMAIN correlated :
          k \in extract_ticket_ids(git_commits)
              /\ k \notin TrackerKeys(jira_tickets) \cup extract_ticket_ids(notes)

\* the ids of the bullets of one kind in the document, in document order
RECURSIVE BulletIds(_, _)
BulletIds(doc, kind) ==
    IF doc = <<>> THEN <<>>
    ELSE (IF Head(doc).kind = kind THEN <<Head(doc).id>> ELSE <<>>)
         \o BulletIds(Tail(doc), kind)

\* C2: every key of the correlated mapping is rendered in exactly one group:
\* under ACTIVELY WORKED ON iff its entry has a commit, is time-tracked or is
\* mentioned in the notes, under ALSO TRACKING otherwise; the groups are
\* disjoint, cover the keys, and each key has one bullet.
C2_PartitionExhaustiveDisjoint ==
    pc = "structured" =>
        LET active    == BulletIds(structured, "active bullet")
            mentioned == BulletIds(structured, "mentioned bullet")
        IN  /\ Range(active) =
                 { k \in DOMAIN correlated :
                     \/ Len(correlated[k].git_commits) >= 1
                     \/ correlated[k].time_tracked
                     \/ correlated[k].mentioned_in_notes }
            /\ Range(mentioned) = DOMAIN correlated \ Range(active)
            /\ Range(active) \cap Range(mentioned) = {}
            /\ Len(active) + Len(mentioned) = Cardinality(DOMAIN correlated)

\* C2 witness: one key in each group
C2_Witness ==
    /\ pc = "structured"
    /\ BulletIds(structured, "active bullet") = <<AB_1>>
    /\ BulletIds(structured, "mentioned bullet") = <<ab_1>>

\* the last tracker record with the key k
LastRecord(jira, k) ==
    jira[Max({ i \in DOMAIN jira : TruthyKey(jira[i]) /\ jira[i].key[1] = k })]

\* C10: every tracker record's non-empty key is a key of the mapping as it
\* is, not uppercased, and its entry carries the record's status and
\* summary; a tracker key equal to an extracted identifier shares that
\* identifier's entry, which has the text-derived evidence too; a tracker key
\* that no text yields as it is (such as one differing in letter case) has an
\* entry of its own with the tracker fields only; keys of no tracker record
\* have no status and no summary.
C10_TrackerKeysVerbatim ==
    pc = "correlated" =>
        /\ \A k \in TrackerKeys(jira_tickets) :
              /\ k \in DOMAIN correlated
              /\ correlated[k].jira_status = StatusName(LastRecord(jira_tickets, k))
              /\ correlated[k].jira_summary = Summary(LastRecord(jira_tickets, k))
              /\ correlated[k].mentioned_in_notes = (k \in extract_ticket_ids(notes))
              /\ correlated[k].time_tracked = (k \in extract_ticket_ids(timew_data))
              /\ (correlated[k].git_commits # <<>>) = (k \in extract_ticket_ids(git_commits))
              /\ k \notin TextKeys =>
                    correlated[k] =
                        [DefaultEntry EXCEPT
                           !.jira_status = StatusName(LastRecord(jira_tickets, k)),
                           !.jira_summary = Summary(LastRecord(jira_tickets, k))]
        /\ \A k \in DOMAIN correlated \ TrackerKeys(jira_tickets) :
              correlated[k].jira_status = None /\ correlated[k].jira_summary = None

\* C10 witness: the notes mention AB-1, one tracker record has the key AB-1
\* and another the key ab-1: two entries, the merged one and the tracker-only
\* one
C10_Witness ==
    /\ pc = "correlated"
    /\ DOMAIN correlated = {AB_1, ab_1}
    /\ correlated[AB_1].mentioned_in_notes
    /\ correlated[AB_1].jira_status = Some(InProgress)
    /\ correlated[ab_1] =
          [DefaultEntry EXCEPT !.jira_status = Some(Done),
                               !.jira_summary = Some(WriteDocs)]

-----------------------------------------------------------------------------
(* Repeated calls on one DataPreprocessor instance                         *)

MaxInstanceInput == 2

MaxOthers == 2

\* arguments of the calls made between the two calls that are compared
OtherInputs ==
    { [n |-> X1,
       jira |-> <<FullRecord(X1, Open, FixBug)>>,
       git_log |-> X1,
       timew |-> <<>>],
      [n |-> AB_1,
       jira |-> <<BareRecord(ab_1)>>,
       git_log |-> <<>>,
       timew |-> AB_1] }

\* correlate_ticket_data on other arguments; the caller drops the result
CallOtherCorrelate ==
    /\ pc \in {"correlated", "raised"}
    /\ others < MaxOthers
    /\ \E a \in OtherInputs :
         \E r \in { correlate_ticket_data(Self, a.n, a.jira, a.git_log,
                                          a.timew) } :
             /\ ticket_map' = r.self.ticket_map
             /\ time_entries' = r.self.time_entries
    /\ others' = others + 1
    /\ UNCHANGED <<pc, textVars, aggVars, moreVars, notes, jira_tickets, git_commits, timew_data,
                   typed, raised, correlated, structured, correlated_again>>

\* structure_for_ai on the mapping of other arguments; the caller drops the
\* result
CallOtherStructure ==
    /\ pc \in {"correlated", "raised"}
    /\ others < MaxOthers
    /\ \E a \in OtherInputs, date_range \in DateRanges :
         \E c \in { correlate_ticket_data(Self, a.n, a.jira, a.git_log,
                                          a.timew) } :
             /\ ~c.raised
             /\ \E r \in { structure_for_ai(c.self, c.ret, a.n, date_range) } :
                    /\ ticket_map' = r.self.ticket_map
                    /\ time_entries' = r.self.time_entries
    /\ others' = others + 1
    /\ UNCHANGED <<pc, textVars, aggVars, moreVars, notes, jira_tickets, git_commits, timew_data,
                   typed, raised, correlated, structured, correlated_again>>

\* deduplicate_content on another text; lines 319-329 read and write no
\* attribute of self
CallOtherDeduplicate ==
    /\ pc \in {"correlated", "raised"}
    /\ others < MaxOthers
    /\ \E a \in OtherInputs : deduplicate_content(a.git_log) \in Seq(STRING)
    /\ others' = others + 1
    /\ UNCHANGED <<pc, textVars, aggVars, moreVars, ticket_map, time_entries, notes, jira_tickets,
                   git_commits, timew_data, typed, raised, correlated,
                   structured, correlated_again>>

\* correlate_ticket_data once more, with the arguments of the first call
CallCorrelateAgain ==
    /\ pc \in {"correlated", "raised"}
    /\ \E r \in { correlate_ticket_data(Self, notes, jira_tickets,
                                         git_commits, timew_data) } :
           /\ ticket_map' = r.self.ticket_map
           /\ time_entries' = r.self.time_entries
           /\ correlated_again' = r.ret
           /\ pc' = IF r.raised THEN "raised again" ELSE "correlated again"
    /\ UNCHANGED <<textVars, aggVars, moreVars, notes, jira_tickets, git_commits, timew_data,
                   typed, raised, correlated, structured, others>>

NextInstance ==
    \/ TypeNotes(MaxInstanceInput)
    \/ TypeJira(MaxInstanceInput)
    \/ TypeGit(MaxInstanceInput)
    \/ TypeTimew(MaxInstanceInput)
    \/ CallCorrelate
    \/ CallOtherCorrelate
    \/ CallOtherStructure
    \/ CallOtherDeduplicate
    \/ CallCorrelateAgain

SpecInstance == InitCorrelate /\ [][NextInstance]_vars

\* C3: a second call of correlate_ticket_data with the arguments of the
\* first returns a mapping equal to the first one (and raises iff the first
\* raised), whatever calls on other arguments the same instance served in
\* between; the instance's attributes stay as the constructor left them.
C3_SameArgumentsSameMapping ==
    /\ pc = "correlated again" => correlated_again = correlated /\ ~raised
    /\ pc = "raised again" => raised
    /\ Self = NewInstance

\* C3 witness: a second call that returned a mapping with the contexts,
\* commits and tracker fields of a ticket, after calls on other arguments
C3_Witness ==
    /\ pc = "correlated again"
    /\ others = MaxOthers
    /\ AB_1 \in DOMAIN correlated_again
    /\ correlated_again[AB_1].contexts # <<>>
    /\ correlated_again[AB_1].git_commits # <<>>
    /\ correlated_again = correlated

-----------------------------------------------------------------------------
(* The commit lines of a ticket                                            *)

GitLogPieces == { AB_1, ab_1, <<"2">>, <<" ">>, <<"\n">> }

MaxGitPieces == 5

\* a new instance and the arguments of one call: a commit log, with notes and
\* tracker records that mention a ticket or not
InitGit ==
    /\ pc = "args"
    /\ AggUnused
    /\ MoreUnused
    /\ TextUnused
    /\ ticket_map = NewInstance.ticket_map
    /\ time_entries = NewInstance.time_entries
    /\ notes \in { NoText, AB_1 }
    /\ jira_tickets \in { <<>>, <<FullRecord(AB_1, InProgress, FixBug)>> }
    /\ git_commits \in TextsOf(GitLogPieces, MaxGitPieces)
    /\ timew_data = NoText
    /\ typed = 0
    /\ raised = FALSE
    /\ correlated = EmptyDict
    /\ structured = <<>>
    /\ others = 0
    /\ correlated_again = EmptyDict

NextGit == CallCorrelate

SpecGit == InitGit /\ [][NextGit]_vars

\* the lines of the log that contain id, letter case ignored, in log order
LinesMentioning(git_log, id) ==
    LET lines == Split(git_log)
    IN  Pick(lines, { i \in DOMAIN lines : Contains(Upper(lines[i]), Upper(id)) }, 1)

\* seq without the elements equal to an earlier one
WithoutRepeats(seq) ==
    Pick(seq, { i \in DOMAIN seq : \A j \in 1..(i - 1) : seq[j] # seq[i] }, 1)

\* seq with every element stripped of leading and trailing whitespace
Stripped(seq) == [i \in DOMAIN seq |-> Strip(seq[i])]

\* C11 as stated: for every identifier extracted from the commit log, the
\* entry's git_commits is the log lines that contain the identifier (letter
\* case ignored), as they are in the log, in log order, a line already in the
\* list not being added again.
C11_CommitLinesVerbatim ==
    pc = "correlated" =>
        \A id \in extract_ticket_ids(git_commits) :
            correlated[id].git_commits =
                WithoutRepeats(LinesMentioning(git_commits, id))

\* C11 amended: for every identifier extracted from the commit log, the
\* entry's git_commits is the log lines that contain the identifier (letter
\* case ignored), each stripped of leading and trailing whitespace, in log
\* order, a stripped line already in the list not being added again; every
\* element contains the identifier.
C11_CommitLinesStripped ==
    pc = "correlated" =>
        \A id \in extract_ticket_ids(git_commits) :
            /\ correlated[id].git_commits =
                  WithoutRepeats(Stripped(LinesMentioning(git_commits, id)))
            /\ \A i \in DOMAIN correlated[id].git_commits :
                  Contains(Upper(correlated[id].git_commits[i]), id)

\* C11 witness: the log "ab-1 \nab-1": both lines mention AB-1, the second
\* repeats the first once that is stripped, and one commit is listed
C11_Witness ==
    /\ pc = "correlated"
    /\ git_commits = ab_1 \o <<" ", "\n">> \o ab_1
    /\ correlated[AB_1].git_commits = <<ab_1>>

-----------------------------------------------------------------------------
(* Time tracking                                                           *)

\* whether a clock duration stands on a line of the text that mentions id,
\* letter case ignored as the Extractor ignores it, or on the line directly
\* before or after such a line
DurationNearMention(timew, id) ==
    LET lines == Split(timew)
    IN  \E i \in DOMAIN lines :
            /\ Contains(Upper(lines[i]), id)
            /\ \E j \in DOMAIN lines :
                  /\ j \in (i - 1)..(i + 1)
                  /\ DurationSearch(lines[j]) # None

\* C12: every identifier the Extractor finds in the time-tracking text has
\* time_tracked set, and has time_duration set exactly when a clock duration
\* stands on a line mentioning it or on a line next to one.
C12_DurationNearAnyMention ==
    pc = "correlated" =>
        \A id \in extract_ticket_ids(timew_data) :
            /\ correlated[id].time_tracked
            /\ (correlated[id].time_duration # None)
                  = DurationNearMention(timew_data, id)

\* C13: no call of correlate_ticket_data raises: whatever the texts and the
\* tracker records, records with an absent or null key, fields, status or
\* summary included, the call returns a mapping.
C13_NeverRaises == pc # "raised" /\ ~raised

\* the 1-based positions in the document of the lines of one kind
PositionsOf(doc, kind) == { i \in DOMAIN doc : doc[i].kind = kind }

\* seq is strictly ascending in the order of str
Ascending(seq) ==
    \A i \in DOMAIN seq : \A j \in DOMAIN seq :
        i < j => StrLess(seq[i], seq[j])

\* C14: in the document, the ACTIVELY WORKED ON header comes before every
\* active bullet, every active bullet before the ALSO TRACKING header, and
\* that header before every mentioned-only bullet; the identifiers of each
\* group are in strictly ascending lexicographic order, so that no two
\* entries tie on the identifier when they are ordered.
C14_ActiveFirstBothAscending ==
    pc = "structured" =>
        LET a  == PositionsOf(structured, "active bullet")
            m  == PositionsOf(structured, "mentioned bullet")
            ha == PositionsOf(structured, "ACTIVELY WORKED ON:")
            hm == PositionsOf(structured, "ALSO TRACKING:")
        IN  /\ \A i \in a : \A j \in m : i < j
            /\ \A i \in a : \E h \in ha : h < i
            /\ \A j \in m : \E h \in hm : h < j
            /\ \A i \in a : \A h \in hm : i < h
            /\ Ascending(BulletIds(structured, "active bullet"))
            /\ Ascending(BulletIds(structured, "mentioned bullet"))

\* C14 witness: two active tickets, AB-1 before X1, and then a mentioned-only
\* one
C14_Witness ==
    /\ pc = "structured"
    /\ BulletIds(structured, "active bullet") = <<AB_1, X1>>
    /\ BulletIds(structured, "mentioned bullet") = <<ab_1>>

\* C15: the document starts with the TIMEFRAME header and has the WORK NOTES
\* header once, later, followed by the cleaned notes only; the TICKET WORK
\* header is there, once and between the two, iff the correlated mapping has
\* a key. With no key and empty notes the document is the TIMEFRAME section,
\* two empty lines, the WORK NOTES header and an empty body.
C15_HeadersAlwaysTicketWorkIffKeys ==
    pc = "structured" =>
        LET n  == Len(structured)
            tf == PositionsOf(structured, "=== TIMEFRAME ===")
            wn == PositionsOf(structured, "=== WORK NOTES ===")
            tw == PositionsOf(structured, "=== TICKET WORK ===")
        IN  /\ tf = {1}
            /\ wn = {n - 1}
            /\ structured[n].kind = "notes"
            /\ (tw # {}) = (DOMAIN correlated # {})
            /\ Cardinality(tw) <= 1
            /\ \A t \in tw : 1 < t /\ t < n - 1
            /\ (DOMAIN correlated = {} /\ notes = <<>>) =>
                  /\ structured[n].text = Some(<<>>)
                  /\ tw = {}
                  /\ \A i \in 2..(n - 2) :
                        structured[i].kind \in {"Period:", "Yesterday:", "Today:", ""}

\* C15 witness: the document of an empty mapping and empty notes over a range
\* of one day: TIMEFRAME, the period, two empty lines, WORK NOTES, empty body
C15_Witness ==
    /\ pc = "structured"
    /\ DOMAIN correlated = {}
    /\ notes = <<>>
    /\ Len(structured) = 6
    /\ structured[5].kind = "=== WORK NOTES ==="
    /\ structured[6].text = Some(<<>>)

-----------------------------------------------------------------------------
(* The worked example: one ticket in the notes, the tracker and the log    *)

INFRA_1 == <<"I", "N", "F", "R", "A", "-", "1">>

\* "Worked on INFRA-1 today"
ExampleNotes == <<"W", "o", "r", "k", "e", "d", " ", "o", "n", " ", "I", "N", "F", "R", "A", "-", "1", " ", "t", "o", "d", "a", "y">>

\* "abc123 2024-01-01 | fix INFRA-1 bug"
ExampleLog == <<"a", "b", "c", "1", "2", "3", " ", "2", "0", "2", "4", "-", "0", "1", "-", "0", "1", " ", "|", " ", "f", "i", "x", " ", "I", "N", "F", "R", "A", "-", "1", " ", "b", "u", "g">>

\* the hash of the example's commit, which the compact pattern matches
ABC123 == <<"A", "B", "C", "1", "2", "3">>

ExampleRecord == FullRecord(INFRA_1, InProgress, FixBug)

\* the words the notes of the example are made of
ExampleWords == { <<"W", "o", "r", "k", "e", "d">>, <<"o", "n">>, INFRA_1, <<"t", "o", "d", "a", "y">>, <<" ">> }

MaxExampleWords == 3

\* a new instance and the arguments of one call: the example's, or others
\* made of the same words, with or without its record and its commit
InitExample ==
    /\ pc = "args"
    /\ AggUnused
    /\ MoreUnused
    /\ TextUnused
    /\ ticket_map = NewInstance.ticket_map
    /\ time_entries = NewInstance.time_entries
    /\ notes \in TextsOf(ExampleWords, MaxExampleWords) \cup { ExampleNotes }
    /\ jira_tickets \in { <<>>, <<ExampleRecord>> }
    /\ git_commits \in { NoText, ExampleLog }
    /\ timew_data = NoText
    /\ typed = 0
    /\ raised = FALSE
    /\ correlated = EmptyDict
    /\ structured = <<>>
    /\ others = 0
    /\ correlated_again = EmptyDict

NextExample == CallCorrelate \/ CallStructure

SpecExample == InitExample /\ [][NextExample]_vars

\* the arguments and the date range of the example were the ones given
ExampleGiven ==
    /\ notes = ExampleNotes
    /\ jira_tickets = <<ExampleRecord>>
    /\ git_commits = ExampleLog
    /\ timew_data = NoText
    /\ \E i \in DOMAIN structured :
          structured[i].kind = "Period:" /\ structured[i].dates = <<1, 2>>

\* C16: for the example the document has the TICKET WORK header, the
\* ACTIVELY WORKED ON header and a block for INFRA-1 with the summary
\* "Fix bug", the status "In Progress" and one commit line, and no ALSO
\* TRACKING header; for all arguments ALSO TRACKING is in the document iff
\* some entry has no commit, is not time-tracked and is not mentioned in the
\* notes.
C16_ExampleBlockAndAlsoTrackingIff ==
    pc = "structured" =>
        /\ ExampleGiven =>
              /\ PositionsOf(structured, "=== TICKET WORK ===") # {}
              /\ PositionsOf(structured, "ACTIVELY WORKED ON:") # {}
              /\ PositionsOf(structured, "ALSO TRACKING:") = {}
              /\ \E i \in DOMAIN structured :
                    /\ i + 5 <= Len(structured)
                    /\ structured[i].kind = "active bullet"
                    /\ structured[i].id = INFRA_1
                    /\ structured[i + 1].kind = "summary"
                    /\ structured[i + 1].text = Some(FixBug)
                    /\ structured[i + 2].kind = "status"
                    /\ structured[i + 2].status = Some(InProgress)
                    /\ structured[i + 3].kind = "commits"
                    /\ structured[i + 3].n = 1
                    /\ structured[i + 4].kind = "commit"
                    /\ structured[i + 4].text = Some(ExampleLog)
                    /\ structured[i + 5].kind # "commit"
        /\ (PositionsOf(structured, "ALSO TRACKING:") # {})
              = (\E k \in DOMAIN correlated :
                    /\ correlated[k].git_commits = <<>>
                    /\ ~correlated[k].time_tracked
                    /\ ~correlated[k].mentioned_in_notes)

\* C16 witness: the document of the example, which renders INFRA-1 and the
\* commit's hash as active tickets
C16_Witness ==
    /\ pc = "structured"
    /\ ExampleGiven
    /\ BulletIds(structured, "active bullet") = <<ABC123, INFRA_1>>

-----------------------------------------------------------------------------
(* _clean_notes on bounded notes                                           *)

NineOClock == <<"9", ":", "0", "0">>

CleanPieces ==
    { <<"a">>, <<"b">>, <<" ">>, <<"\n">>, NineOClock, <<"a", "m">>, <<"-">> }

MaxCleanPieces == 5

\* a new instance and the notes argument of one call of _clean_notes
InitClean ==
    /\ pc = "start"
    /\ AggUnused
    /\ MoreUnused
    /\ text \in TextsOf(CleanPieces, MaxCleanPieces)
    /\ tickets = NoSet
    /\ deduped = NoText
    /\ deduped_again = NoText
    /\ ticket_id = NoText
    /\ context_size = 0
    /\ context = NoText
    /\ cleaned_notes = NoText
    /\ CorrUnused

\* cleaned_notes = self._clean_notes(notes, ...), line 277
CallCleanNotes ==
    /\ pc = "start"
    /\ cleaned_notes' = _clean_notes(text)
    /\ pc' = "cleaned"
    /\ UNCHANGED <<text, tickets, deduped, deduped_again, ticket_id,
                   context_size, context, corrVars, aggVars, moreVars>>

NextClean == CallCleanNotes

SpecClean == InitClean /\ [][NextClean]_vars

\* whether the text holds a match of the timestamp pattern
HasTimestamp(t) == \E s \in 0..Len(t) : TimestampEnd(t, s) # -1

\* the pairs of line numbers of the text whose lines are not blank and have
\* a run of three or more newlines, and nothing else, between them
ParagraphBreaks(lines) ==
    { ij \in (DOMAIN lines) \X (DOMAIN lines) :
        /\ ij[2] >= ij[1] + 3
        /\ Strip(lines[ij[1]]) # <<>>
        /\ Strip(lines[ij[2]]) # <<>>
        /\ \A k \in (ij[1] + 1)..(ij[2] - 1) : lines[k] = <<>> }

\* C17: where the notes (without timestamps) have three or more consecutive
\* newlines between two non-blank lines, the body has these two lines,
\* trimmed and with runs of spaces collapsed, with exactly one blank line
\* between them.
C17_ParagraphBreakKept ==
    (pc = "cleaned" /\ ~HasTimestamp(text)) =>
        LET lines == Split(text)
            out   == Split(cleaned_notes)
            Clean(l) == Strip(CollapseRuns(l, 0, " ", 2, <<" ">>))
        IN  \A ij \in ParagraphBreaks(lines) :
                \E k \in DOMAIN out :
                    /\ k + 2 <= Len(out)
                    /\ out[k] = Clean(lines[ij[1]])
                    /\ out[k + 1] = <<>>
                    /\ out[k + 2] = Clean(lines[ij[2]])

\* a line without its leading whitespace
LStrip(t) ==
    IF Strip(t) = <<>> THEN <<>>
    ELSE Slice(t, Min({ i \in DOMAIN t : ~IsSpace(t[i]) }) - 1, Len(t))

\* a line without the timestamp that leads it, if one does
WithoutLeadingTimestamp(line) ==
    IF TimestampEnd(LStrip(line), 0) # -1
    THEN Slice(LStrip(line), TimestampEnd(LStrip(line), 0), Len(LStrip(line)))
    ELSE line

\* C18: the body is the notes with the timestamp removed only where it leads
\* a line, every other character kept, then trimmed and collapsed as
\* _clean_notes does (runs of newlines and of spaces collapsed, lines
\* trimmed, blank lines dropped).
C18_OnlyLeadingTimestampsRemoved ==
    pc = "cleaned" =>
        LET lines    == Split(text)
            untimed  == Join([i \in DOMAIN lines |->
                                WithoutLeadingTimestamp(lines[i])])
            unspaced == CollapseRuns(untimed, 0, "\n", 3, <<"\n", "\n">>)
        IN  cleaned_notes =
                Join(CleanLines(Split(CollapseRuns(unspaced, 0, " ", 2, <<" ">>))))

-----------------------------------------------------------------------------
(* DataAggregator, save_summary and the clock                              *)

\* how many instants of a day the clock tells apart
TicksPerDay == 2

MaxTicks == 1

\* the days datetime.now() may be in when a run starts: January 8 to 14,
\* 2024, a Monday to a Sunday; an instant is a day of that month and a tick
StartDays == 8..14

\* datetime.weekday(): 0 for a Monday, which January 1, 2024 is
weekday(t) == (t.day - 1) % 7

\* t - timedelta(days=n)
DaysBefore(t, n) == [t EXCEPT !.day = @ - n]

\* the clock one tick later
Later(t) ==
    IF t.tick + 1 < TicksPerDay THEN [t EXCEPT !.tick = @ + 1]
    ELSE [day |-> t.day + 1, tick |-> 0]

\* strftime('%d')
TwoDigits(n) == <<DigitSeq[(n \div 10) + 1], DigitSeq[(n % 10) + 1]>>

\* strftime('%Y-%m-%d')
DateText(t) ==
    <<"2", "0", "2", "4", "-", "0", "1", "-">> \o TwoDigits(t.day)

\* line 70: base_dir / %Y / %m / %d.txt
_get_note_path(date) ==
    [year  |-> <<"2", "0", "2", "4">>,
     month |-> <<"0", "1">>,
     name  |-> TwoDigits(date.day) \o <<".", "t", "x", "t">>]

\* lines 48-50, 54-56: what the note file of a date adds to combined_content;
\* file is None when the path does not exist
NotesFor(date, file) ==
    IF file = None THEN <<>>
    ELSE <<"N", "o", "t", "e", "s", " ", "f", "o", "r", " ">> \o DateText(date)
         \o <<":", "\n">> \o file[1] \o <<"\n", "\n">>

\* lines 37-58: today as read from the clock, the paths looked up and the
\* combined content
get_notes_content(today, today_file, previous_file) ==
    LET previous_workday == IF weekday(today) = 0
                            THEN DaysBefore(today, 3)
                            ELSE DaysBefore(today, 1)
    IN  [today |-> today,
         paths |-> <<_get_note_path(today), _get_note_path(previous_workday)>>,
         ret   |-> NotesFor(today, today_file)
                   \o NotesFor(previous_workday, previous_file)]

\* lines 177-182 without the Monday case
get_date_range_AlwaysYesterday(today) == <<DaysBefore(today, 1), today>>

\* lines 177-182, today being what datetime.now() returned
get_date_range(today) ==
    <<IF weekday(today) = 0 THEN DaysBefore(today, 3) ELSE DaysBefore(today, 1),
      today>>

\* standup_automation.py lines 146-153: today as read from the clock and the
\* date range string
save_summary(today) ==
    LET previous_workday == IF weekday(today) = 0
                            THEN DaysBefore(today, 3)
                            ELSE DaysBefore(today, 1)
    IN  [today |-> today,
         label |-> DateText(previous_workday) \o <<" ", "t", "o", " ">>
                   \o DateText(today)]

\* "No Git directories configured"
NoGitDirectories ==
    <<"N", "o", " ", "G", "i", "t", " ", "d", "i", "r", "e", "c", "t",
      "o", "r", "i", "e", "s", " ", "c", "o", "n", "f", "i", "g",
      "u", "r", "e", "d">>

\* "No timewarrior summary"
NoTimewSummary ==
    <<"N", "o", " ", "t", "i", "m", "e", "w", "a", "r", "r", "i", "o",
      "r", " ", "s", "u", "m", "m", "a", "r", "y">>

\* the git_directories argument: no repository, or one
GitDirectories == { <<>>, <<(<<"r">>)>> }

\* what os.path.isdir and subprocess.run(git_cmd, cwd=directory, check=True)
\* do for a directory: it is no directory, the git executable is not found
\* (FileNotFoundError), git exits with an error (CalledProcessError), or git
\* prints stdout
GitRuns ==
    { [kind |-> "not a directory", stdout |-> NoText],
      [kind |-> "no executable", stdout |-> NoText],
      [kind |-> "exit status", stdout |-> NoText],
      [kind |-> "completed", stdout |-> NoText],
      [kind |-> "completed",
       stdout |-> <<"1", "f", "2", " ", "2", "0", "2", "4", "-", "0",
                 "1", "-", "0", "8", " ", "|", " ", "A", "B", "-", "1",
                 " ", "f", "i", "x", " ", "[", "]", " ", "(", "m", "e",
                 ")", "\n">>] }

RECURSIVE CommitBullets(_)
\* lines 111-112: f"- {commit}\n" for each line of the output
CommitBullets(lines) ==
    IF lines = <<>> THEN <<>>
    ELSE <<"-", " ">> \o Head(lines) \o <<"\n">> \o CommitBullets(Tail(lines))

RECURSIVE GitLoop(_, _, _)
\* lines 96-115, for the remaining directories; only CalledProcessError is
\* caught at line 114
GitLoop(directories, run, history_info) ==
    IF directories = <<>> THEN [raised |-> FALSE, ret |-> history_info]
    ELSE IF run.kind = "not a directory"
         THEN GitLoop(Tail(directories), run, history_info)
    ELSE IF run.kind = "no executable" THEN [raised |-> TRUE, ret |-> NoText]
    ELSE IF run.kind = "exit status"
         THEN GitLoop(Tail(directories), run, history_info)
    ELSE IF run.stdout = NoText
         THEN GitLoop(Tail(directories), run, history_info)
    ELSE GitLoop(Tail(directories), run,
                 history_info
                 \o <<"\n", "F", "o", "l", "d", "e", "r", ":", " ">>
                 \o Head(directories) \o <<"\n">>
                 \o CommitBullets(Split(Strip(run.stdout))))

\* lines 83-117: whether the call raised, and the text returned
get_git_history(directories, run) ==
    IF directories = <<>>
    THEN [raised |-> FALSE, ret |-> NoGitDirectories \o <<".">>]
    ELSE GitLoop(directories, run,
                 <<"I", "n", "c", "l", "u", "d", "e", " ", "t", "h",
                 "i", "s", " ", "G", "i", "t", " ", "h", "i", "s", "t",
                 "o", "r", "y", ":", "\n">>)

\* what subprocess.run(["timew", "summary", ":yesterday"], check=True) does
TimewRuns ==
    { [kind |-> "no executable", stdout |-> NoText],
      [kind |-> "exit status", stdout |-> NoText],
      [kind |-> "completed",
       stdout |-> AB_1 \o <<" ">> \o Duration \o <<"\n">>] }

\* lines 125-134
get_timewarrior_summary(run) ==
    IF run.kind = "completed"
    THEN <<"T", "i", "m", "e", "w", "a", "r", "r", "i", "o", "r", " ",
         "S", "u", "m", "m", "a", "r", "y", " ", "f", "o", "r", " ",
         "y", "e", "s", "t", "e", "r", "d", "a", "y", ":", "\n">>
         \o Strip(run.stdout)
    ELSE NoTimewSummary
         \o <<" ", "a", "v", "a", "i", "l", "a", "b", "l", "e", ".">>

\* str(e) of the exception a tracker call raises
TrackerDown == <<"t", "i", "m", "e", "o", "u", "t">>

\* self.jira_client: None, or a client whose get_my_active_tickets raises or
\* returns the tickets
JiraClients ==
    { [kind |-> "none", message |-> NoText, tickets |-> <<>>],
      [kind |-> "raises", message |-> TrackerDown, tickets |-> <<>>],
      [kind |-> "returns", message |-> NoText, tickets |-> <<>>],
      [kind |-> "returns", message |-> NoText,
       tickets |-> <<FullRecord(AB_1, InProgress, FixBug)>>],
      [kind |-> "returns", message |-> NoText,
       tickets |-> <<NullFieldsRecord(AB_1)>>] }

\* lines 256-261: jira_tickets, which stays [] without a client and when the
\* call raises
ActiveTickets(client) ==
    IF client.kind = "returns" THEN client.tickets ELSE <<>>

\* the text of a note file, or None for a path that does not exist
NoteFiles == { None, Some(AB_1 \o <<" ", "f", "i", "x">>) }

\* lines 282-293 without the deduplicate_content of line 288
AdditionalData_RawGit(git_history, timew_summary) ==
    <<Literal("=== ADDITIONAL DATA ===")>>
    \o (IF git_history # NoText /\ ~Contains(git_history, NoGitDirectories)
        THEN <<Literal("GIT ACTIVITY:"),
               Line("git activity", <<>>, None, Some(git_history), 0, <<>>)>>
        ELSE <<>>)
    \o (IF timew_summary # NoText /\ ~Contains(timew_summary, NoTimewSummary)
        THEN <<Literal("TIME TRACKING:"),
               Line("time tracking", <<>>, None, Some(timew_summary), 0, <<>>)>>
        ELSE <<>>)

\* lines 282-293: what is appended to the text structure_for_ai returned
AdditionalData(git_history, timew_summary) ==
    <<Literal("=== ADDITIONAL DATA ===")>>
    \o (IF git_history # NoText /\ ~Contains(git_history, NoGitDirectories)
        THEN <<Literal("GIT ACTIVITY:"),
               Line("git activity", <<>>, None,
                    Some(deduplicate_content(git_history)), 0, <<>>)>>
        ELSE <<>>)
    \o (IF timew_summary # NoText /\ ~Contains(timew_summary, NoTimewSummary)
        THEN <<Literal("TIME TRACKING:"),
               Line("time tracking", <<>>, None, Some(timew_summary), 0, <<>>)>>
        ELSE <<>>)

\* a new DataAggregator with its new DataPreprocessor, and the clock at some
\* instant of the week
InitAggregate ==
    /\ pc = "aggregate"
    /\ MoreUnused
    /\ TextUnused
    /\ CorrUnused
    /\ now \in [day : StartDays, tick : 0..(TicksPerDay - 1)]
    /\ ticks = 0
    /\ lookup = <<>>
    /\ got_date_range = <<>>
    /\ saved = <<>>
    /\ structured_data = <<>>

\* time passes while aggregate_all_data_structured or its caller runs
Tick ==
    /\ pc \in {"aggregate", "notes read", "collected", "aggregated", "summary"}
    /\ ticks < MaxTicks
    /\ now' = Later(now)
    /\ ticks' = ticks + 1
    /\ UNCHANGED <<moreVars, pc, textVars, corrVars, lookup, got_date_range, saved,
                   structured_data>>

\* line 251: notes = self.get_notes_content(), which reads the clock at
\* line 37 and the two note files
AggGetNotes ==
    /\ pc = "aggregate"
    /\ \E today_file \in NoteFiles, previous_file \in NoteFiles :
         \E r \in { get_notes_content(now, today_file, previous_file) } :
             /\ lookup' = [today |-> r.today, paths |-> r.paths]
             /\ notes' = r.ret
    /\ pc' = "notes read"
    /\ UNCHANGED <<moreVars, textVars, now, ticks, got_date_range, saved, structured_data,
                   ticket_map, time_entries, jira_tickets, git_commits,
                   timew_data, typed, raised, correlated, structured, others,
                   correlated_again>>

\* what get_git_history does, over the directories and the runs
GitHistories ==
    { get_git_history(directories, run) :
        directories \in GitDirectories, run \in GitRuns }

\* what get_timewarrior_summary returns, over the runs
TimewSummaries == { get_timewarrior_summary(run) : run \in TimewRuns }

\* what lines 256-261 leave in jira_tickets, over the clients
JiraResults == { ActiveTickets(client) : client \in JiraClients }

\* lines 252-261: the git history, the timewarrior summary and the tracker's
\* tickets; what get_git_history raises leaves the call
AggCollect ==
    /\ pc = "notes read"
    /\ \E g \in GitHistories :
         IF g.raised
         THEN /\ raised' = TRUE
              /\ pc' = "raised"
              /\ UNCHANGED <<git_commits, timew_data, jira_tickets>>
         ELSE /\ git_commits' = g.ret
              /\ timew_data' \in TimewSummaries
              /\ jira_tickets' \in JiraResults
              /\ raised' = FALSE
              /\ pc' = "collected"
    /\ UNCHANGED <<textVars, aggVars, moreVars, ticket_map, time_entries, notes,
                   typed, correlated, structured, others, correlated_again>>

\* lines 264-295: correlate_ticket_data, get_date_range, which reads the
\* clock at line 177, structure_for_ai and the additional data
AggStructure ==
    /\ pc = "collected"
    /\ \E c \in { correlate_ticket_data(Self, notes, jira_tickets,
                                         git_commits, timew_data) } :
         IF c.raised
         THEN /\ ticket_map' = c.self.ticket_map
              /\ time_entries' = c.self.time_entries
              /\ raised' = TRUE
              /\ correlated' = c.ret
              /\ pc' = "raised"
              /\ UNCHANGED <<got_date_range, structured, structured_data>>
         ELSE \E date_range \in { get_date_range(now) } :
                \E r \in { structure_for_ai(c.self, c.ret, notes,
                             <<date_range[1].day, date_range[2].day>>) } :
                    /\ ticket_map' = r.self.ticket_map
                    /\ time_entries' = r.self.time_entries
                    /\ raised' = FALSE
                    /\ correlated' = c.ret
                    /\ got_date_range' = date_range
                    /\ structured' = r.ret
                    /\ structured_data' =
                         r.ret \o AdditionalData(git_commits, timew_data)
                    /\ pc' = "aggregated"
    /\ UNCHANGED <<moreVars, textVars, now, ticks, lookup, saved, notes, jira_tickets,
                   git_commits, timew_data, typed, others, correlated_again>>

\* whether an element of the document is empty or whitespace
RendersBlank(line) ==
    \/ line.kind = ""
    \/ line.kind \in {"notes", "git activity", "time tracking"}
          /\ Strip(line.text[1]) = <<>>

\* not combined_data.strip(), the document being its elements joined
BlankDocument(doc) == \A i \in DOMAIN doc : RendersBlank(doc[i])

\* standup_automation.py lines 89-129: generate_standup_summary after the
\* aggregation returned or raised: None for a blank document without a call
\* of the AI service, else what the AI service gives, a summary or nothing;
\* None when the aggregation raised
GenerateSummary ==
    /\ pc \in {"aggregated", "flat aggregated", "raised"}
    /\ IF pc = "raised" THEN pc' = "error logged"
       ELSE IF \/ pc = "aggregated" /\ BlankDocument(structured_data)
               \/ pc = "flat aggregated" /\ Strip(combined_data) = <<>>
            THEN pc' = "no data"
       ELSE pc' \in {"summary", "no summary"}
    /\ UNCHANGED <<textVars, corrVars, aggVars, moreVars>>

\* standup_automation.py lines 131-164: save_summary, which reads the clock
\* and appends the date range string to summaries.txt
SaveSummary ==
    /\ pc = "summary"
    /\ saved' = save_summary(now)
    /\ pc' = "saved"
    /\ UNCHANGED <<moreVars, textVars, corrVars, now, ticks, lookup,
                   got_date_range, structured_data>>

NextAggregate ==
    \/ Tick
    \/ AggGetNotes
    \/ AggCollect
    \/ AggStructure
    \/ GenerateSummary
    \/ SaveSummary

SpecAggregate == InitAggregate /\ [][NextAggregate]_vars


-----------------------------------------------------------------------------
(* The previous workday                                                    *)

\* 3 calendar days before a Monday, 1 calendar day before any other day
PreviousWorkday(today) ==
    [today EXCEPT !.day = IF weekday(today) = 0 THEN @ - 3 ELSE @ - 1]

\* the path of the note file of a date
NotePathOf(date) ==
    [year  |-> <<"2", "0", "2", "4">>,
     month |-> <<"0", "1">>,
     name  |-> TwoDigits(date.day) \o <<".", "t", "x", "t">>]

\* C19: get_date_range returns (previous workday, today), the previous
\* workday being today minus 3 calendar days on a Monday, which is the
\* preceding Friday, and today minus 1 calendar day on every other day;
\* get_notes_content looks up the note files of today and of the previous
\* workday by the same rule, and save_summary labels the summary with the
\* previous workday and today by the same rule.
C19_PreviousWorkdayRule ==
    /\ got_date_range # <<>> =>
         /\ got_date_range = <<PreviousWorkday(got_date_range[2]),
                               got_date_range[2]>>
         /\ weekday(got_date_range[2]) = 0 => weekday(got_date_range[1]) = 4
         /\ pc \in {"aggregated", "summary"} /\ ticks = 0 => got_date_range[2] = now
    /\ lookup # <<>> =>
         lookup.paths = <<NotePathOf(lookup.today),
                          NotePathOf(PreviousWorkday(lookup.today))>>
    /\ saved # <<>> =>
         /\ saved.today = now
         /\ saved.label = DateText(PreviousWorkday(saved.today))
                          \o <<" ", "t", "o", " ">> \o DateText(saved.today)

\* C19: a run on a Monday has looked up the notes, computed the date range
\* from the preceding Friday and saved the summary
C19_Witness ==
    /\ pc = "saved"
    /\ weekday(lookup.today) = 0
    /\ weekday(got_date_range[2]) = 0
    /\ got_date_range[1].day = got_date_range[2].day - 3
    /\ weekday(saved.today) = 0

\* the calendar dates of the 'Period:' line of a structured text
PeriodDates(doc) ==
    UNION { Range(doc[i].dates) : i \in { j \in DOMAIN doc : doc[j].kind = "Period:" } }

\* C20: within one call of aggregate_all_data_structured the two dates of
\* the 'Period:' line are the two dates whose note files get_notes_content
\* looked up, whenever the call runs, a run during which the clock passes
\* midnight between the lookup and the date range included.
C20_PeriodDatesAreLookupDates ==
    pc = "aggregated" =>
        { NotePathOf([day |-> d, tick |-> 0]) : d \in PeriodDates(structured_data) }
            = Range(lookup.paths)

-----------------------------------------------------------------------------
(* Entries of identifiers found in a text                                  *)

\* C29: in a returned mapping, an identifier extracted from the commit log
\* has at least one commit line, one extracted from the notes has
\* mentioned_in_notes true and exactly one ('notes', excerpt) context, one
\* extracted from the time-tracking text has time_tracked true, so each of
\* them is active; a mentioned-only entry has a key of a tracker record that
\* no text holds, and contexts never holds more than one pair.
C29_TextIdentifiersAreActive ==
    pc = "correlated" =>
        \A k \in DOMAIN correlated :
            /\ k \in extract_ticket_ids(git_commits) =>
                   Len(correlated[k].git_commits) >= 1
            /\ k \in extract_ticket_ids(notes) =>
                   /\ correlated[k].mentioned_in_notes
                   /\ Len(correlated[k].contexts) = 1
                   /\ correlated[k].contexts[1].source = "notes"
                   /\ correlated[k].contexts[1].context # <<>>
            /\ k \in extract_ticket_ids(timew_data) => correlated[k].time_tracked
            /\ Len(correlated[k].contexts) <= 1
            /\ ( /\ correlated[k].git_commits = <<>>
                 /\ ~correlated[k].time_tracked
                 /\ ~correlated[k].mentioned_in_notes )
                 => k \in TrackerKeys(jira_tickets) /\ k \notin TextKeys

\* C29 witness: an identifier written in lowercase in the notes and the
\* commit log, next to a tracker record whose key no text holds
C29_Witness ==
    /\ pc = "correlated"
    /\ notes = ab_1
    /\ git_commits = ab_1
    /\ DOMAIN correlated = {AB_1, ab_1}
    /\ Len(correlated[AB_1].git_commits) = 1
    /\ Len(correlated[AB_1].contexts) = 1
    /\ ~correlated[ab_1].mentioned_in_notes

-----------------------------------------------------------------------------
(* The duration of a ticket of the time-tracking text                      *)

HalfPastTwo == <<"2", ":", "3", "0">>

DurationPieces == { AB_1, Duration, HalfPastTwo, <<" ">>, <<"\n">> }

MaxDurationPieces == 5

\* a new instance and the arguments of one call: a time-tracking text only
InitDuration ==
    /\ pc = "args"
    /\ AggUnused
    /\ MoreUnused
    /\ TextUnused
    /\ ticket_map = NewInstance.ticket_map
    /\ time_entries = NewInstance.time_entries
    /\ notes = NoText
    /\ jira_tickets = <<>>
    /\ git_commits = NoText
    /\ timew_data \in TextsOf(DurationPieces, MaxDurationPieces)
    /\ typed = 0
    /\ raised = FALSE
    /\ correlated = EmptyDict
    /\ structured = <<>>
    /\ others = 0
    /\ correlated_again = EmptyDict

NextDuration == CallCorrelate

SpecDuration == InitDuration /\ [][NextDuration]_vars

RECURSIVE ScanOrder(_, _, _)
\* the numbers of the lines scanned, in the order of the scan: for each line
\* from i on that holds the identifier, the line before it, the line itself
\* and the line after it
ScanOrder(lines, id, i) ==
    IF i > Len(lines) THEN <<>>
    ELSE (IF Contains(lines[i], id)
          THEN (IF i > 1 THEN <<i - 1>> ELSE <<>>) \o <<i>>
               \o (IF i < Len(lines) THEN <<i + 1>> ELSE <<>>)
          ELSE <<>>)
         \o ScanOrder(lines, id, i + 1)

\* the first clock-duration token of the first scanned line that holds one,
\* or None
FirstToken(lines, order) ==
    LET holding == { n \in DOMAIN order : DurationSearch(lines[order[n]]) # None }
    IN  IF holding = {} THEN None
        ELSE DurationSearch(lines[order[Min(holding)]])

\* C30: _extract_time_duration visits the lines mentioning the identifier
\* from top to bottom and scans, around each, the preceding line, the
\* mention line and the following line, returning the first clock-duration
\* token found: a duration on the line before a mention wins over one on the
\* mention line, a later mention never replaces an earlier hit, and None is
\* returned only when no scanned line holds a token.
C30_FirstTokenInScanOrder ==
    pc = "correlated" =>
        \A id \in extract_ticket_ids(timew_data) :
            correlated[id].time_duration
                = FirstToken(Split(timew_data), ScanOrder(Split(timew_data), id, 1))

\* C30 witness: a duration on the line before the mention and another one
\* on the mention line; the one before is returned
C30_Witness ==
    /\ pc = "correlated"
    /\ timew_data = Duration \o <<"\n">> \o AB_1 \o <<" ">> \o HalfPastTwo
    /\ correlated[AB_1].time_duration = Some(Duration)

-----------------------------------------------------------------------------
(* normalize_ticket_references                                             *)

\* the lengths k >= least for which [A-Z]{least,} matches k characters from
\* offset s as line 55 compiles it, without re.IGNORECASE, followed by a
\* hyphen when the pattern has one
UpperFits(hyphen, least, t, s) ==
    { k \in least..(Len(t) - s) :
        /\ \A i \in 1..k : t[s + i] \in UpperSet
        /\ hyphen => (s + k + 1 <= Len(t) /\ t[s + k + 1] = "-") }

\* the patterns of TICKET_PATTERNS without re.IGNORECASE: the end offset of
\* the match that starts at offset s, or -1
CasedMatchEnd(pattern, t, s) ==
    LET hyphen == pattern = "standard"
        least  == IF hyphen THEN 2 ELSE 1
        gap    == IF hyphen THEN 1 ELSE 0
        ks     == { k \in UpperFits(hyphen, least, t, s) :
                      DigitFits(t, s + k + gap) # {} }
    IN  IF ~WordBoundary(t, s) THEN -1
        ELSE IF ks = {} THEN -1
        ELSE LET k == Max(ks)
             IN  s + k + gap + Max(DigitFits(t, s + k + gap))

RECURSIVE SubUpper(_, _, _)
\* line 55: re.sub(pattern, lambda m: m.group(1).upper(), text) from offset
\* pos on: the non-overlapping matches, leftmost first, each replaced
SubUpper(pattern, t, pos) ==
    LET starts == { s \in pos..Len(t) : CasedMatchEnd(pattern, t, s) # -1 }
    IN  IF starts = {} THEN Slice(t, pos, Len(t))
        ELSE LET s == Min(starts)
                 e == CasedMatchEnd(pattern, t, s)
             IN  Slice(t, pos, s) \o Upper(Slice(t, s, e)) \o SubUpper(pattern, t, e)

RECURSIVE NormalizeLoop(_, _)
\* lines 54-55, for the remaining patterns
NormalizeLoop(patterns, t) ==
    IF patterns = <<>> THEN t
    ELSE NormalizeLoop(Tail(patterns), SubUpper(Head(patterns), t, 0))

normalize_ticket_references(t) == NormalizeLoop(TICKET_PATTERNS, t)

\* normalize_ticket_references(text)
CallNormalize ==
    /\ pc = "start"
    /\ normalized_text' = normalize_ticket_references(text)
    /\ pc' = "normalized"
    /\ UNCHANGED <<textVars, corrVars, aggVars, events, recent_events,
                   jira_info, github_events, combined_data>>

NextNormalize == CallNormalize

SpecNormalize == InitExtract /\ [][NextNormalize]_vars

\* the characters of t, numbered from 1, that lie in a ticket reference
InReference(t) ==
    UNION { { i \in 1..Len(t) :
                \E n \in DOMAIN FindAll(TICKET_PATTERNS[p], t, 0) :
                    /\ FindAll(TICKET_PATTERNS[p], t, 0)[n][1] < i
                    /\ i <= FindAll(TICKET_PATTERNS[p], t, 0)[n][2] }
            : p \in DOMAIN TICKET_PATTERNS }

\* C28: after normalize_ticket_references every ticket reference of the
\* text is uppercase: each token extract_ticket_ids recognizes in the input,
\* in any letter case, stands in the output in its uppercase form, every
\* other character is unchanged, and normalizing the output changes nothing.
C28_ReferencesUppercased ==
    pc = "normalized" =>
        /\ Len(normalized_text) = Len(text)
        /\ \A i \in 1..Len(text) :
              normalized_text[i] = IF i \in InReference(text)
                                   THEN UpperChar(text[i]) ELSE text[i]
        /\ \A m \in Mentions(normalized_text) : m = Upper(m)
        /\ normalize_ticket_references(normalized_text) = normalized_text

\* C26: the start of the date range, the previous workday of the notes
\* lookup and of the TIMEFRAME header, is a working day, Monday to Friday,
\* whichever day of the week today is.
C26_PreviousWorkdayIsWorkingDay ==
    /\ got_date_range # <<>> => weekday(got_date_range[1]) \in 0..4
    /\ lookup # <<>> =>
          \E d \in 1..31 :
              /\ weekday([day |-> d, tick |-> 0]) \in 0..4
              /\ lookup.paths[2] = NotePathOf([day |-> d, tick |-> 0])

-----------------------------------------------------------------------------
(* The documents of the two aggregation modes                              *)

\* C24: the document of aggregate_all_data_structured has its sections in
\* the order TIMEFRAME, TICKET WORK when present, WORK NOTES, ADDITIONAL
\* DATA, with GIT ACTIVITY before TIME TRACKING inside ADDITIONAL DATA; the
\* GIT ACTIVITY body is deduplicate_content of the git-history text, the TIME
\* TRACKING body is the time-tracking text unchanged, and the part before
\* ADDITIONAL DATA is the output of structure_for_ai unchanged.
C24_StructuredSectionsInOrder ==
    pc = "aggregated" =>
        LET doc == structured_data
            tf  == PositionsOf(doc, "=== TIMEFRAME ===")
            tw  == PositionsOf(doc, "=== TICKET WORK ===")
            wn  == PositionsOf(doc, "=== WORK NOTES ===")
            ad  == PositionsOf(doc, "=== ADDITIONAL DATA ===")
            ga  == PositionsOf(doc, "GIT ACTIVITY:")
            tt  == PositionsOf(doc, "TIME TRACKING:")
        IN  /\ tf = {1}
            /\ Cardinality(tw) <= 1 /\ Cardinality(wn) = 1 /\ Cardinality(ad) = 1
            /\ Cardinality(ga) <= 1 /\ Cardinality(tt) <= 1
            /\ \A i \in tw : \A j \in wn : 1 < i /\ i < j
            /\ \A i \in wn : \A j \in ad : i < j
            /\ \A i \in ad : \A j \in ga \cup tt : i < j
            /\ \A i \in ga : \A j \in tt : i < j
            /\ \A i \in ga :
                  /\ doc[i + 1].kind = "git activity"
                  /\ doc[i + 1].text = Some(deduplicate_content(git_commits))
            /\ \A i \in tt :
                  /\ doc[i + 1].kind = "time tracking"
                  /\ doc[i + 1].text = Some(timew_data)
                  /\ i + 1 = Len(doc)
            /\ \A i \in ad : SubSeq(doc, 1, i - 1) = structured

\* C24 witness: a document with the six headers
C24_Witness ==
    /\ pc = "aggregated"
    /\ PositionsOf(structured_data, "=== TICKET WORK ===") # {}
    /\ PositionsOf(structured_data, "GIT ACTIVITY:") # {}
    /\ PositionsOf(structured_data, "TIME TRACKING:") # {}
    /\ \E i \in DOMAIN structured_data :
          /\ structured_data[i].kind = "git activity"
          /\ structured_data[i].text # Some(git_commits)

-----------------------------------------------------------------------------
(* GitHubClient.filter_recent_events                                       *)

\* event.get("created_at") of an event: the key is absent, its value is
\* null, or it is a str
NoCreatedAt == [kind |-> "absent", value |-> NoText]
NullCreatedAt == [kind |-> "null", value |-> NoText]
CreatedAt(t) == [kind |-> "str", value |-> t]

\* a timestamp of a day of January 2024 as the API writes it
Timestamp(day) ==
    DateText([day |-> day, tick |-> 0])
    \o <<"T", "1", "0", ":", "0", "0", ":", "0", "0", "Z">>

\* the events of the events argument: timestamps of four days, a date
\* without a time, no timestamp, a null timestamp
EventSamples ==
    { [created_at |-> CreatedAt(Timestamp(7))],
      [created_at |-> CreatedAt(Timestamp(8))],
      [created_at |-> CreatedAt(Timestamp(9))],
      [created_at |-> CreatedAt(Timestamp(10))],
      [created_at |-> CreatedAt(DateText([day |-> 9, tick |-> 0]))],
      [created_at |-> NoCreatedAt],
      [created_at |-> NullCreatedAt] }

MaxEvents == 2

\* line 104: days: int = 2
DefaultDays == 2

\* the number two decimal digits stand for, or -1
TwoDigitValue(a, b) ==
    IF IsDigit(a) /\ IsDigit(b)
    THEN 10 * ((CHOOSE i \in 1..10 : DigitSeq[i] = a) - 1)
         + (CHOOSE i \in 1..10 : DigitSeq[i] = b) - 1
    ELSE -1

\* lines 119-121: datetime.strptime(t, "%Y-%m-%dT%H:%M:%SZ").date() for a
\* text whose fields have two digits and whose month is January 2024: the
\* day of the month, or -1 for the ValueError of a text the format does not
\* match
StrptimeDay(t) ==
    IF /\ Len(t) = 20
       /\ SubSeq(t, 1, 8) = <<"2", "0", "2", "4", "-", "0", "1", "-">>
       /\ TwoDigitValue(t[9], t[10]) \in 1..31
       /\ t[11] = "T"
       /\ TwoDigitValue(t[12], t[13]) \in 0..23
       /\ t[14] = ":"
       /\ TwoDigitValue(t[15], t[16]) \in 0..59
       /\ t[17] = ":"
       /\ TwoDigitValue(t[18], t[19]) \in 0..61
       /\ t[20] = "Z"
    THEN TwoDigitValue(t[9], t[10])
    ELSE -1

RECURSIVE FilterLoop(_, _, _)
\* lines 117-125, for the remaining events: event["created_at"] raises
\* KeyError for an absent key and strptime raises ValueError for a text the
\* format does not match, both caught at line 124; strptime raises TypeError
\* for None, which nothing catches
FilterLoop(todo, cutoff_date, recent) ==
    IF todo = <<>> THEN [raised |-> FALSE, ret |-> recent]
    ELSE LET event == Head(todo)
         IN  IF event.created_at.kind = "absent"
             THEN FilterLoop(Tail(todo), cutoff_date, recent)
             ELSE IF event.created_at.kind = "null"
             THEN [raised |-> TRUE, ret |-> <<>>]
             ELSE IF StrptimeDay(event.created_at.value) = -1
             THEN FilterLoop(Tail(todo), cutoff_date, recent)
             ELSE IF StrptimeDay(event.created_at.value) >= cutoff_date
             THEN FilterLoop(Tail(todo), cutoff_date, Append(recent, event))
             ELSE FilterLoop(Tail(todo), cutoff_date, recent)

\* lines 114-127, today being what datetime.now() returned
filter_recent_events(evs, days, today) ==
    FilterLoop(evs, today.day - (days - 1), <<>>)

\* the clock at some instant of Tuesday or Wednesday, and no event yet
InitEvents ==
    /\ pc = "events"
    /\ TextUnused
    /\ CorrUnused
    /\ MoreUnused
    /\ now \in [day : {9, 10}, tick : 0..(TicksPerDay - 1)]
    /\ ticks = 0
    /\ lookup = <<>>
    /\ got_date_range = <<>>
    /\ saved = <<>>
    /\ structured_data = <<>>

\* one more event of the events argument
AddEvent(max) ==
    /\ pc = "events"
    /\ Len(events) < max
    /\ \E e \in EventSamples : events' = Append(events, e)
    /\ UNCHANGED <<pc, textVars, corrVars, aggVars, normalized_text,
                   recent_events, jira_info, github_events, combined_data>>

\* filter_recent_events(events)
CallFilter ==
    /\ pc = "events"
    /\ \E r \in { filter_recent_events(events, DefaultDays, now) } :
          /\ recent_events' = r.ret
          /\ raised' = r.raised
          /\ pc' = IF r.raised THEN "raised" ELSE "filtered"
    /\ UNCHANGED <<textVars, aggVars, normalized_text, events, jira_info,
                   github_events, combined_data, ticket_map, time_entries,
                   notes, jira_tickets, git_commits, timew_data, typed,
                   correlated, structured, others, correlated_again>>

NextEvents == AddEvent(MaxEvents) \/ CallFilter

SpecEvents == InitEvents /\ [][NextEvents]_vars

\* whether an event has a timestamp of a day, and the day
HasDay(event) ==
    /\ event.created_at.kind = "str"
    /\ \E d \in 1..31 : event.created_at.value = Timestamp(d)

DayOf(event) == CHOOSE d \in 1..31 : event.created_at.value = Timestamp(d)

RECURSIVE Keep(_, _)
\* the events of evs whose day is at least first, in their order
Keep(evs, first) ==
    IF evs = <<>> THEN <<>>
    ELSE (IF HasDay(Head(evs)) /\ DayOf(Head(evs)) >= first
          THEN <<Head(evs)>> ELSE <<>>) \o Keep(Tail(evs), first)

\* C25: filter_recent_events never raises on malformed events: an event
\* whose created_at is missing, null or not parseable as a timestamp is
\* skipped, and the result is exactly the remaining events whose date is on
\* or after today minus (days - 1), in their original order.
C25_MalformedEventsSkipped ==
    /\ pc # "events" => pc = "filtered"
    /\ pc = "filtered" =>
          recent_events = Keep(events, now.day - (DefaultDays - 1))

-----------------------------------------------------------------------------
(* aggregate_all_data                                                      *)

\* "Jira client not configured."
JiraNotConfigured ==
    <<"J", "i", "r", "a", " ", "c", "l", "i", "e", "n", "t", " ", "n",
      "o", "t", " ", "c", "o", "n", "f", "i", "g", "u", "r", "e", "d",
      ".">>

\* "No tickets found."
NoTicketsFound == <<"N", "o", " ", "t", "i", "c", "k", "e", "t", "s",
                    " ", "f", "o", "u", "n", "d", ".">>

\* "Error fetching Jira tickets: "
ErrorFetchingJira ==
    <<"E", "r", "r", "o", "r", " ", "f", "e", "t", "c", "h", "i", "n",
      "g", " ", "J", "i", "r", "a", " ", "t", "i", "c", "k", "e", "t",
      "s", ":", " ">>

\* str(e) of the AttributeError of None.get
NoneHasNoGet ==
    <<"'", "N", "o", "n", "e", "T", "y", "p", "e", "'", " ", "o", "b",
      "j", "e", "c", "t", " ", "h", "a", "s", " ", "n", "o", " ", "a",
      "t", "t", "r", "i", "b", "u", "t", "e", " ", "'", "g", "e", "t",
      "'">>

\* jira_client.py lines 92-97: the line of one ticket; a record of the model
\* has its key, and a summary and a status name when it has the dicts
TicketLine(ticket) ==
    <<"-", " ">>
    \o (IF ticket.key = None
        THEN <<"U", "n", "k", "n", "o", "w", "n">> ELSE ticket.key[1])
    \o <<" ", "(">>
    \o (IF StatusName(ticket) = None
        THEN <<"N", "o", " ", "s", "t", "a", "t", "u", "s", " ", "a",
               "v", "a", "i", "l", "a", "b", "l", "e">>
        ELSE StatusName(ticket)[1])
    \o <<")", ":", " ">>
    \o (IF Summary(ticket) = None
        THEN <<"N", "o", " ", "s", "u", "m", "m", "a", "r", "y", " ",
               "a", "v", "a", "i", "l", "a", "b", "l", "e">>
        ELSE Summary(ticket)[1])
    \o <<"\n">>

RECURSIVE TicketLines(_)
\* jira_client.py lines 91-97, for the remaining tickets: fields.get and
\* .get("name") raise AttributeError on None
TicketLines(ticket_list) ==
    IF ticket_list = <<>> THEN [raised |-> FALSE, ret |-> NoText]
    ELSE IF JiraRaises(Head(ticket_list)) THEN [raised |-> TRUE, ret |-> NoText]
    ELSE IF TicketLines(Tail(ticket_list)).raised
         THEN [raised |-> TRUE, ret |-> NoText]
    ELSE [raised |-> FALSE,
          ret |-> TicketLine(Head(ticket_list)) \o TicketLines(Tail(ticket_list)).ret]

\* jira_client.py lines 87-99
format_tickets_for_summary(ticket_list) ==
    IF ticket_list = <<>> THEN [raised |-> FALSE, ret |-> NoTicketsFound]
    ELSE IF TicketLines(ticket_list).raised THEN [raised |-> TRUE, ret |-> NoText]
    ELSE [raised |-> FALSE,
          ret |-> <<"T", "a", "k", "e", " ", "i", "n", "t", "o", " ",
                    "a", "c", "c", "o", "u", "n", "t", " ", "t", "h",
                    "e", "s", "e", " ", "t", "i", "c", "k", "e", "t",
                    "s", ":", "\n">>
                  \o TicketLines(ticket_list).ret]

\* lines 142-149
get_jira_tickets(client) ==
    IF client.kind = "none" THEN JiraNotConfigured
    ELSE IF client.kind = "raises" THEN ErrorFetchingJira \o client.message
    ELSE IF format_tickets_for_summary(client.tickets).raised
         THEN ErrorFetchingJira \o NoneHasNoGet
    ELSE format_tickets_for_summary(client.tickets).ret

\* "Error fetching GitHub events: "
ErrorFetchingGitHub ==
    <<"E", "r", "r", "o", "r", " ", "f", "e", "t", "c", "h", "i", "n",
      "g", " ", "G", "i", "t", "H", "u", "b", " ", "e", "v", "e", "n",
      "t", "s", ":", " ">>

\* str(e) of the TypeError of strptime(None, ...)
StrptimeNeedsStr ==
    <<"s", "t", "r", "p", "t", "i", "m", "e", "(", ")", " ", "a", "r",
      "g", "u", "m", "e", "n", "t", " ", "1", " ", "m", "u", "s", "t",
      " ", "b", "e", " ", "s", "t", "r", ",", " ", "n", "o", "t", " ",
      "N", "o", "n", "e">>

RECURSIVE EventLines(_)
\* github_client.py lines 142-147 for events that hold a created_at only
EventLines(evs) ==
    IF evs = <<>> THEN NoText
    ELSE <<"-", " ", "U", "n", "k", "n", "o", "w", "n", " ", "o", "n",
           " ", "U", "n", "k", "n", "o", "w", "n", " ", "r", "e", "p",
           "o", " ", "a", "t", " ">>
         \o Head(evs).created_at.value \o <<"\n">> \o EventLines(Tail(evs))

\* github_client.py lines 138-149
format_events_for_summary(evs) ==
    IF evs = <<>>
    THEN <<"N", "o", " ", "G", "i", "t", "H", "u", "b", " ", "e", "v",
           "e", "n", "t", "s", " ", "f", "o", "u", "n", "d", " ", "f",
           "o", "r", " ", "t", "h", "e", " ", "r", "e", "c", "e", "n",
           "t", " ", "d", "a", "y", "s", ".">>
    ELSE <<"R", "e", "c", "e", "n", "t", " ", "G", "i", "t", "H", "u",
           "b", " ", "E", "v", "e", "n", "t", "s", ":", "\n">>
         \o EventLines(evs)

\* self.github_client: None, or a client whose get_user_events raises or
\* returns the events
GitHubClients ==
    { [kind |-> "none", message |-> NoText, events |-> <<>>],
      [kind |-> "raises", message |-> TrackerDown, events |-> <<>>],
      [kind |-> "returns", message |-> NoText, events |-> <<>>],
      [kind |-> "returns", message |-> NoText,
       events |-> <<[created_at |-> CreatedAt(Timestamp(9))]>>],
      [kind |-> "returns", message |-> NoText,
       events |-> <<[created_at |-> NullCreatedAt]>>] }

\* the github_username argument
Usernames == { None, Some(<<"m", "e">>) }

\* lines 161-169, today being what datetime.now() returns at line 114 of
\* github_client.py
get_github_events(client, today) ==
    IF client.kind = "none"
    THEN <<"G", "i", "t", "H", "u", "b", " ", "c", "l", "i", "e", "n",
           "t", " ", "n", "o", "t", " ", "c", "o", "n", "f", "i", "g",
           "u", "r", "e", "d", ".">>
    ELSE IF client.kind = "raises" THEN ErrorFetchingGitHub \o client.message
    ELSE IF filter_recent_events(client.events, DefaultDays, today).raised
         THEN ErrorFetchingGitHub \o StrptimeNeedsStr
    ELSE format_events_for_summary(
             filter_recent_events(client.events, DefaultDays, today).ret)

\* lines 204-228 with the git history before the tracker section
aggregate_all_data_GitFirst(n, jira, git_history, timew_summary, github) ==
    n \o git_history \o <<"\n">> \o jira \o <<"\n">>
      \o timew_summary \o <<"\n">>
      \o (IF github # None THEN github[1] \o <<"\n">> ELSE <<>>)

\* lines 204-228: combined_data, made of what the collaborators returned;
\* github is None when line 224 skips get_github_events
aggregate_all_data(n, jira, git_history, timew_summary, github) ==
    n \o jira \o <<"\n">> \o git_history \o <<"\n">>
      \o timew_summary \o <<"\n">>
      \o (IF github # None THEN github[1] \o <<"\n">> ELSE <<>>)

\* aggregate_all_data(notes_directory, git_author, git_directories,
\* github_username): lines 204-228 with the calls they make; what
\* get_git_history raises leaves the call
AggregateFlat ==
    /\ pc = "aggregate"
    /\ \E today_file \in NoteFiles, previous_file \in NoteFiles :
         \E r \in { get_notes_content(now, today_file, previous_file) } :
             /\ lookup' = [today |-> r.today, paths |-> r.paths]
             /\ notes' = r.ret
    /\ \E client \in JiraClients : jira_info' = get_jira_tickets(client)
    /\ \E g \in GitHistories :
         IF g.raised
         THEN /\ raised' = TRUE
              /\ pc' = "raised"
              /\ UNCHANGED <<git_commits, timew_data, github_events,
                             combined_data>>
         ELSE /\ git_commits' = g.ret
              /\ timew_data' \in TimewSummaries
              /\ \E username \in Usernames, client \in GitHubClients :
                    github_events' =
                      [username |-> username,
                       client   |-> client.kind,
                       ret      |-> IF Truthy(username) /\ client.kind # "none"
                                    THEN Some(get_github_events(client, now))
                                    ELSE None]
              /\ combined_data' =
                    aggregate_all_data(notes', jira_info', git_commits',
                                       timew_data', github_events'.ret)
              /\ raised' = FALSE
              /\ pc' = "flat aggregated"
    /\ UNCHANGED <<textVars, now, ticks, got_date_range, saved, structured_data,
                   normalized_text, events, recent_events, ticket_map,
                   time_entries, jira_tickets, typed, correlated, structured,
                   others, correlated_again>>

\* the state before aggregate_all_data is called, on a Monday or a Tuesday
InitFlat ==
    /\ pc = "aggregate"
    /\ MoreUnused
    /\ TextUnused
    /\ CorrUnused
    /\ now \in [day : {8, 9}, tick : 0..(TicksPerDay - 1)]
    /\ ticks = 0
    /\ lookup = <<>>
    /\ got_date_range = <<>>
    /\ saved = <<>>
    /\ structured_data = <<>>

NextFlat ==
    \/ Tick
    \/ AggregateFlat
    \/ GenerateSummary
    \/ SaveSummary

SpecFlat == InitFlat /\ [][NextFlat]_vars

-----------------------------------------------------------------------------
(* The document of aggregate_all_data                                      *)

\* the sections after the notes, in the order of the claim: tracker, git
\* history, time tracking and, when get_github_events was called, GitHub
FlatSections ==
    <<jira_info, git_commits, timew_data>>
      \o (IF github_events.ret # None THEN <<github_events.ret[1]>> ELSE <<>>)

RECURSIVE SectionStart(_)
\* how many characters of the document precede section k when the notes
\* come first and one character follows each section
SectionStart(k) ==
    IF k = 1 THEN Len(notes)
    ELSE SectionStart(k - 1) + Len(FlatSections[k - 1]) + 1

\* the document is the notes and then the sections in order, one newline
\* after each, and nothing else
SectionsInOrder ==
    /\ Len(combined_data) = SectionStart(Len(FlatSections) + 1)
    /\ SubSeq(combined_data, 1, Len(notes)) = notes
    /\ \A k \in DOMAIN FlatSections :
          /\ SubSeq(combined_data, SectionStart(k) + 1,
                    SectionStart(k) + Len(FlatSections[k])) = FlatSections[k]
          /\ combined_data[SectionStart(k + 1)] = "\n"

\* the GitHub section is there exactly when a username and a client are given
GitHubWhenConfigured ==
    github_events.ret # None
       <=> Truthy(github_events.username) /\ github_events.client # "none"

\* an empty line stands between section k and section k + 1
BlankLineAfter(k) ==
    /\ SectionStart(k + 1) >= 2
    /\ combined_data[SectionStart(k + 1)] = "\n"
    /\ combined_data[SectionStart(k + 1) - 1] = "\n"

EndsWithNewline(t) == t # <<>> /\ t[Len(t)] = "\n"

\* C23 as stated: the document of aggregate_all_data is the notes (if any),
\* the tracker section, the git-history section, the time-tracking section
\* and the GitHub section only when a username and a client are given, in
\* this order, and a blank line separates every two consecutive sections,
\* whether a section holds real content or its placeholder sentence
C23_BlankLineBetweenSections ==
    pc = "flat aggregated" =>
       /\ SectionsInOrder
       /\ GitHubWhenConfigured
       /\ \A k \in 1..(Len(FlatSections) - 1) : BlankLineAfter(k)

\* C23 as amended: the same sections in the same order, each followed by
\* exactly one newline character, so that a blank line separates two
\* consecutive sections exactly when the earlier one itself ends with a
\* newline; after a placeholder sentence the next section starts on the
\* next line
C23_OneNewlineAfterEachSection ==
    pc = "flat aggregated" =>
       /\ SectionsInOrder
       /\ GitHubWhenConfigured
       /\ \A k \in 1..(Len(FlatSections) - 1) :
             BlankLineAfter(k) <=> EndsWithNewline(FlatSections[k])

\* C23: a document with notes and a GitHub section, where the tracker
\* section is its placeholder sentence and the git history is real content
C23_Witness ==
    /\ pc = "flat aggregated"
    /\ notes # <<>>
    /\ github_events.ret # None
    /\ jira_info = JiraNotConfigured
    /\ EndsWithNewline(git_commits)
    /\ ~BlankLineAfter(1)
    /\ BlankLineAfter(2)

-----------------------------------------------------------------------------
(* Unavailable collaborators                                               *)

\* some element of the structured document carries the sentence
Marked(sentence) ==
    \E i \in DOMAIN structured_data :
        /\ structured_data[i].text # None
        /\ Contains(structured_data[i].text[1], sentence)

\* C21: whenever a collaborator is unavailable (no tickets from the tracker,
\* no git directories configured, no time-tracking summary), the returned
\* document contains the fixed placeholder sentence of that section; no
\* unavailable section is left out silently. Stated of the document of
\* aggregate_all_data_structured.
C21_UnavailableSectionsMarked ==
    pc = "aggregated" =>
       /\ Contains(git_commits, NoGitDirectories) => Marked(NoGitDirectories)
       /\ Contains(timew_data, NoTimewSummary) => Marked(NoTimewSummary)
       /\ jira_tickets = <<>> =>
             \/ Marked(JiraNotConfigured)
             \/ Marked(NoTicketsFound)
             \/ Marked(ErrorFetchingJira)

\* C22: aggregate_all_data never raises and always returns a document,
\* whatever the collaborators do, and a collaborator that fails does not
\* keep the later ones from being queried: once the call is over nothing
\* was raised, the document is there and the time-tracking summary was asked
\* for.
C22_AggregationAlwaysReturns ==
    pc # "aggregate" =>
       /\ ~raised
       /\ combined_data # NoText
       /\ timew_data # NoText

\* no notes, no tickets, no git directories and no time-tracking summary
NothingFound ==
    /\ notes = <<>>
    /\ jira_tickets = <<>>
    /\ Contains(git_commits, NoGitDirectories)
    /\ Contains(timew_data, NoTimewSummary)

\* C27: generate_standup_summary returns None without calling the AI service
\* when no source supplies any content: the AI service has been called only
\* when some source supplied content.
C27_NoDataNoCall ==
    pc \in {"summary", "no summary", "saved"} => ~NothingFound

=============================================================================
